---- MODULE Spec2Model ----
(***************************************************************************)
(* Model of the prediction-serving pipeline of prediction_lib.py:          *)
(* the row/column transcoder (columnarize, rowify), the inference client   *)
(* (SessionClient.predict), the model wrapper (DefaultModel.predict) and   *)
(* the local_predict driver.                                               *)
(*                                                                         *)
(* Python values are tagged records [t |-> tag, v |-> payload]:            *)
(*   "int"  an integer            "str"  a string (atomic)                 *)
(*   "list" a sequence of values  "dict" a function from keys to values    *)
(*   "nd"   a numpy array, [shape |-> dims, flat |-> row-major leaves]     *)
(*   "bytes" a str handled byte by byte   "json" the JSON text of a value  *)
(*   "class", "instance" a user model class and a model instance           *)
(***************************************************************************)
EXTENDS Integers, Sequences, FiniteSets, TLC

VARIABLES
  t_pc,         \* transcoder harness: position of the caller
  t_src,        \* "instances": the batch comes from columnarize; "batch": given directly
  t_instances,  \* the instance list given to columnarize
  t_columns,    \* the batch (columns) at hand
  t_gen,        \* the generator object returned by rowify
  t_rows,       \* the rows the caller has received from the generator
  t_err,        \* the exception that reached the caller, NoError if none
  sig,          \* the Signature of the loaded model (shared, read-only)
  instances,    \* the instances argument of DefaultModel.predict
  callerStats,  \* the stats argument: [given, d] (the caller's object and its entries)
  shared,       \* whether the working stats object is the caller's object
  stats,        \* the entries of the working stats object of the call
  pc,           \* the statement of DefaultModel.predict / its caller reached
  preprocessed, \* result of the Preprocess phase
  columns,      \* result of the Columnarize phase (the batch)
  unaliased,    \* the feed_dict of SessionClient.predict
  fetched,      \* the list session.run returned
  outputs,      \* the aliased output batch client.predict returned
  gen,          \* the generator rowify returned (the outputs of the call)
  inputs,       \* the inputs DefaultModel.predict returned
  rows,         \* the output rows the caller has received so far
  raised,       \* the exception as created at its raise statement
  err,          \* the exception the caller observes
  log,          \* the phases entered, left and failed, in order
  c_pc,         \* codec harness: position of the caller
  c_fn,         \* the codec function called: "decode" or "encode"
  c_plain,      \* decode: the data before the client marked its byte strings
  c_arg,        \* the data handed to decode_base64 / the instances of encode_base64
  c_map,        \* the outputs_map handed to encode_base64
  c_ret,        \* the value the call returned, PyNone if it raised
  c_err,        \* the exception the call raised, NoError if none
  l_pc,         \* loader harness: the statement of create_model reached
  l_env,        \* the value of the environment variable create_version_request
  l_loaded,     \* what load_model_class returned
  l_model,      \* the model create_model returned
  l_err,        \* the exception that left create_model, NoError if none
  cur,          \* concurrent calls: the call whose statements are being run
  parked,       \* concurrent calls: the frame of the call that is not running
  tm_pc,        \* Timer harness: "new", "entered" (inside the with block) or "exited"
  tm_start,     \* Timer.start: None or the reading taken by __enter__
  tm_end,       \* Timer.end: None or the reading taken by __exit__
  tm_enter,     \* the reading the timer function returned to the latest __enter__
  tm_exit,      \* the reading the timer function returned to the latest __exit__
  tm_read,      \* the latest duration property read in this state of the Timer
  tm_spans,     \* how many with blocks the Timer has been used in
  g_pc,         \* load_model harness: the statement of load_model reached
  g_path,       \* what is at model_path
  g_defs,       \* meta_graph.signature_def: key -> SignatureDef
  g_name,       \* the signature_name argument
  g_sig,        \* the SignatureDef load_model returned
  g_err         \* the exception that left load_model, NoError if none

m_vars == <<sig, instances, callerStats, shared, stats, pc, preprocessed, columns,
            unaliased, fetched, outputs, gen, inputs, rows, raised, err, log>>

t_vars == <<t_pc, t_src, t_instances, t_columns, t_gen, t_rows, t_err>>

c_vars == <<c_pc, c_fn, c_plain, c_arg, c_map, c_ret, c_err>>

l_vars == <<l_pc, l_env, l_loaded, l_model, l_err>>

p_vars == <<cur, parked>>

tm_vars == <<tm_pc, tm_start, tm_end, tm_enter, tm_exit, tm_read, tm_spans>>

g_vars == <<g_pc, g_path, g_defs, g_name, g_sig, g_err>>

vars == <<t_vars, m_vars, c_vars, l_vars, p_vars, tm_vars, g_vars>>

\* ------------------------------------------------------------------ bounds
MaxInstances == 2
MaxBytes == 3
\* the readings of the injected timer function are 0..MaxReading
MaxReading == 2
\* a Timer is used in at most MaxSpans with blocks
MaxSpans == 2

\* --------------------------------------------------------- stats key names
ENGINE == "Prediction-Engine"
PREPROCESS_TIME == "Prediction-Preprocess-Time"
COLUMNARIZE_TIME == "Prediction-Columnarize-Time"
UNALIAS_TIME == "Prediction-Unalias-Time"
ENGINE_RUN_TIME == "Prediction-Engine-Run-Time"
SESSION_RUN_TIME == "Prediction-Session-Run-Time"
ALIAS_TIME == "Prediction-Alias-Time"
ROWIFY_TIME == "Prediction-Rowify-Time"
INPUT_PROCESSING_TIME == "Prediction-Input-Processing-Time"

\* ------------------------------------------------------------ value layer
PyInt(n) == [t |-> "int", v |-> n]
PyStr(s) == [t |-> "str", v |-> s]
PyList(s) == [t |-> "list", v |-> s]
PyDict(f) == [t |-> "dict", v |-> f]
NdArray(shape, flat) == [t |-> "nd", v |-> [shape |-> shape, flat |-> flat]]

EmptyFn == [k \in {} |-> PyInt(0)]
PyNone == [t |-> "NoneType", v |-> 0]

NoError == [type |-> "none", kind |-> "none", detail |-> <<>>]
PredictionError(kind, detail) == [type |-> "PredictionError", kind |-> kind, detail |-> detail]
PyException(type, detail) == [type |-> type, kind |-> "none", detail |-> detail]

FAILED_TO_LOAD_MODEL == "FAILED_TO_LOAD_MODEL"
INVALID_INPUTS == "INVALID_INPUTS"
FAILED_TO_RUN_GRAPH == "FAILED_TO_RUN_GRAPH"
INVALID_OUTPUTS == "INVALID_OUTPUTS"
INVALID_USER_CODE == "INVALID_USER_CODE"
ErrorKinds == {FAILED_TO_LOAD_MODEL, INVALID_INPUTS, FAILED_TO_RUN_GRAPH,
               INVALID_OUTPUTS, INVALID_USER_CODE}

\* product of the dimensions of a shape
RECURSIVE Prod(_)
Prod(dims) == IF dims = <<>> THEN 1 ELSE Head(dims) * Prod(Tail(dims))

\* hasattr(value, "shape")
HasShape(x) == x.t = "nd"

\* NdIndex gone wrong: output[0, ...] whatever the row
NdIndex_first(a, row) ==
  LET inner == Tail(a.v.shape)
      stride == Prod(inner)
  IN NdArray(inner, SubSeq(a.v.flat, 1, stride))

\* output[row, ...] : the sub-array at index row (1-based here) of the outer dimension
NdIndex(a, row) ==
  LET inner == Tail(a.v.shape)
      stride == Prod(inner)
  IN NdArray(inner, SubSeq(a.v.flat, (row - 1) * stride + 1, row * stride))

\* ndarray.tolist(): a 0-d array gives its element, an n-d array a nested list
RECURSIVE tolist(_)
tolist(a) ==
  IF a.v.shape = <<>> THEN a.v.flat[1]
  ELSE PyList([i \in 1..Head(a.v.shape) |-> tolist(NdIndex(a, i))])

\* the dimensions numpy discovers in a nested list (dtype=object)
RECURSIVE Dims(_)
Dims(x) ==
  IF x.t # "list" THEN <<>>
  ELSE IF Len(x.v) = 0 THEN <<0>>
  ELSE LET ds == {Dims(x.v[i]) : i \in 1..Len(x.v)}
       IN IF Cardinality(ds) = 1 THEN <<Len(x.v)>> \o (CHOOSE d \in ds : TRUE)
          ELSE <<Len(x.v)>>

RECURSIVE FlattenSeq(_)
FlattenSeq(ss) == IF ss = <<>> THEN <<>> ELSE Head(ss) \o FlattenSeq(Tail(ss))

\* the row-major leaves of x down to the given number of dimensions
RECURSIVE Leaves(_, _)
Leaves(x, depth) ==
  IF depth = 0 THEN <<x>>
  ELSE FlattenSeq([i \in 1..Len(x.v) |-> Leaves(x.v[i], depth - 1)])

\* np.asarray(x, dtype=np.object)
asarray(x) == LET d == Dims(x) IN NdArray(d, Leaves(x, Len(d)))

\* np.expand_dims(value, axis=0)
expand_dims(a) == NdArray(<<1>> \o a.v.shape, a.v.flat)

\* ----------------------------------------------------- row/column transcoder
\* columnarize_append gone wrong: the value is put in front of its column
columnarize_prepend(cols, inst) ==
  [k \in (DOMAIN cols) \cup (DOMAIN inst.v) |->
     IF k \in DOMAIN inst.v
     THEN PyList(<<inst.v[k]>> \o (IF k \in DOMAIN cols THEN cols[k].v ELSE <<>>))
     ELSE cols[k]]

\* one pass of the outer loop of columnarize: append every value of inst
\* to the column of its key (a defaultdict(list): a missing column starts empty)
columnarize_append(cols, inst) ==
  [k \in (DOMAIN cols) \cup (DOMAIN inst.v) |->
     IF k \in DOMAIN inst.v
     THEN PyList((IF k \in DOMAIN cols THEN cols[k].v ELSE <<>>) \o <<inst.v[k]>>)
     ELSE cols[k]]

RECURSIVE columnarize_loop(_, _)
columnarize_loop(cols, insts) ==
  IF insts = <<>> THEN cols
  ELSE columnarize_loop(columnarize_append(cols, Head(insts)), Tail(insts))

\* columnarize(insts): insts is a sequence of dict values.
\* An inst that is not a dict has no iteritems: AttributeError.
columnarize_raises(insts) == \E i \in 1..Len(insts) : insts[i].t # "dict"
columnarize(insts) == columnarize_loop(EmptyFn, insts)

\* sizes_dict gone wrong: e.size (the number of elements) instead of e.shape[0]
sizes_dict_size(cols) == [k \in DOMAIN cols |-> Len(cols[k].v.flat)]

\* sizes_set of rowify: e.shape[0] for every column
sizes_set(cols) == {cols[k].v.shape[1] : k \in DOMAIN cols}
\* sizes_dict of rowify: name -> e.shape[0]
sizes_dict(cols) == [k \in DOMAIN cols |-> cols[k].v.shape[1]]

\* the row yielded for index row
rowify_row(cols, row) == PyDict([k \in DOMAIN cols |-> tolist(NdIndex(cols[k], row))])

\* A generator object of rowify. Calling rowify runs none of its body.
NoGen == [state |-> "none", columns |-> EmptyFn, row |-> 0]
rowify(cols) == [state |-> "created", columns |-> cols, row |-> 0]

\* The error the body of rowify raises when it is first resumed, NoError if none:
\* e.shape[0] raises AttributeError on a value without shape (a plain list) and
\* IndexError on a 0-d array
rowify_check(cols) ==
  IF \E k \in DOMAIN cols : ~HasShape(cols[k]) THEN PyException("AttributeError", <<"shape">>)
  ELSE IF \E k \in DOMAIN cols : cols[k].v.shape = <<>>
  THEN PyException("IndexError", <<"tuple index out of range">>)
  ELSE IF Cardinality(sizes_set(cols)) # 1
       THEN PredictionError(INVALID_OUTPUTS, <<"outputs had differing sizes", sizes_dict(cols)>>)
  ELSE NoError

\* num_instances gone wrong: the last index is left out (xrange(num_instances - 1))
num_instances_short(cols) ==
  LET n == CHOOSE m \in sizes_set(cols) : TRUE IN IF n = 0 THEN 0 ELSE n - 1

\* num_instances = len(next(cols.itervalues())), taken after the check passed
num_instances(cols) == CHOOSE n \in sizes_set(cols) : TRUE

\* next(g): the generator after one resumption, the row it yields (if any)
\* and the error it raises (if any)
gen_next(g) ==
  LET e == IF g.state = "created" THEN rowify_check(g.columns) ELSE NoError
  IN IF g.state \in {"done", "raised", "none"}
     THEN [gen |-> g, yielded |-> <<>>, err |-> PyException("StopIteration", <<>>)]
     ELSE IF e.type # "none"
     THEN [gen |-> [g EXCEPT !.state = "raised"], yielded |-> <<>>, err |-> e]
     ELSE IF g.row < num_instances(g.columns)
     THEN [gen |-> [g EXCEPT !.state = "suspended", !.row = g.row + 1],
           yielded |-> <<rowify_row(g.columns, g.row + 1)>>, err |-> NoError]
     ELSE [gen |-> [g EXCEPT !.state = "done"], yielded |-> <<>>,
           err |-> PyException("StopIteration", <<>>)]

\* ------------------------------------------------ transcoder: caller harness
Fields == {"a", "b"}

\* mapping instances over Fields (any subset of the fields may be present)
MappingInstances ==
  LET LeafValues == {PyInt(1), PyStr("x"), PyList(<<PyInt(1), PyInt(2)>>), PyList(<<>>)}
  IN UNION {{PyDict(f) : f \in [S -> LeafValues]} : S \in SUBSET Fields}

RECURSIVE SeqsUpTo(_, _)
SeqsUpTo(S, n) ==
  IF n = 0 THEN {<<>>}
  ELSE LET shorter == SeqsUpTo(S, n - 1)
       IN shorter \cup {Append(s, x) : s \in {q \in shorter : Len(q) = n - 1}, x \in S}

\* arrays an engine can hand back for one output: outer length 0..MaxInstances,
\* one or two dimensions, or no dimension at all (a 0-d array)
BatchArrays ==
  {NdArray(<<n>>, [i \in 1..n |-> PyInt(i)]) : n \in 0..MaxInstances}
  \cup {NdArray(<<n, 2>>, [i \in 1..(2 * n) |-> PyInt(i)]) : n \in 0..MaxInstances}
  \cup {NdArray(<<>>, <<PyInt(7)>>)}
Batches == UNION {[S -> BatchArrays] : S \in SUBSET Fields}

\* ------------------------------------------------------- python built-ins
RECURSIVE SetToSeq(_)
SetToSeq(S) == IF S = {} THEN <<>>
               ELSE LET x == CHOOSE y \in S : TRUE IN <<x>> \o SetToSeq(S \ {x})

\* d.keys(): the keys of a dict in its (arbitrary but fixed) iteration order
keys(d) == SetToSeq(DOMAIN d)

\* the characters of the strings of the model
StrChars(str) == IF str = "xy" THEN <<"x", "y">> ELSE <<str>>

\* iteration (for x in value): a list gives its elements, a string its
\* characters, a dict its keys; anything else is not iterable (TypeError)
Iterable(x) == x.t \in {"list", "str", "dict"}
Iterate(x) ==
  IF x.t = "list" THEN x.v
  ELSE IF x.t = "str" THEN [i \in 1..Len(StrChars(x.v)) |-> PyStr(StrChars(x.v)[i])]
  ELSE [i \in 1..Len(keys(x.v)) |-> PyStr(keys(x.v)[i])]

\* len(x)
PyLen(x) == IF x.t = "dict" THEN Cardinality(DOMAIN x.v) ELSE Len(Iterate(x))

\* dict(zip(ks, vs))
Zip(ks, vs) ==
  LET n == IF Len(ks) < Len(vs) THEN Len(ks) ELSE Len(vs)
  IN [k \in {ks[i] : i \in 1..n} |-> vs[CHOOSE i \in 1..n : ks[i] = k /\ \A j \in (i+1)..n : ks[j] # k]]

\* --------------------------------------------------------------- base64
\* A byte string (a Python 2 str handled byte by byte): the sequence of its
\* byte values 0..255.  Base64 text is the byte string of its ASCII characters.
PyBytes(bs) == [t |-> "bytes", v |-> bs]


\* the ASCII code of the i-th character of the base64 alphabet A-Z a-z 0-9 + /
B64Alphabet(i) ==
  IF i < 26 THEN 65 + i
  ELSE IF i < 52 THEN 97 + (i - 26)
  ELSE IF i < 62 THEN 48 + (i - 52)
  ELSE IF i = 62 THEN 43 ELSE 47

IsB64Char(c) == \E i \in 0..63 : B64Alphabet(i) = c
\* the padding character "="
IsPad(c) == c = 61

\* binascii.b2a_base64 without the trailing newline: three bytes give four
\* characters, a last group of one or two bytes is padded with "="
RECURSIVE b2a_base64(_)
b2a_base64(bs) ==
  IF Len(bs) = 0 THEN <<>>
  ELSE IF Len(bs) = 1
  THEN <<B64Alphabet(bs[1] \div 4), B64Alphabet((bs[1] % 4) * 16), 61, 61>>
  ELSE IF Len(bs) = 2
  THEN <<B64Alphabet(bs[1] \div 4), B64Alphabet((bs[1] % 4) * 16 + bs[2] \div 16),
         B64Alphabet((bs[2] % 16) * 4), 61>>
  ELSE <<B64Alphabet(bs[1] \div 4), B64Alphabet((bs[1] % 4) * 16 + bs[2] \div 16),
         B64Alphabet((bs[2] % 16) * 4 + bs[3] \div 64), B64Alphabet(bs[3] % 64)>>
       \o b2a_base64(SubSeq(bs, 4, Len(bs)))

\* the next character at or after position i that is a base64 character or the
\* padding character; 0 if there is none
RECURSIVE find_valid(_, _)
find_valid(cs, i) ==
  IF i > Len(cs) THEN 0
  ELSE IF IsB64Char(cs[i]) \/ IsPad(cs[i]) THEN cs[i]
  ELSE find_valid(cs, i + 1)

\* the decoding loop of binascii.a2b_base64: characters outside the alphabet are
\* skipped, a padding sequence ends the input, every 8 bits gathered give a byte
RECURSIVE a2b_loop(_, _, _, _, _, _)
a2b_loop(cs, i, quad_pos, leftchar, leftbits, out) ==
  IF i > Len(cs) THEN [out |-> out, leftbits |-> leftbits]
  ELSE IF IsPad(cs[i])
  THEN IF quad_pos < 2 \/ (quad_pos = 2 /\ ~IsPad(find_valid(cs, i + 1)))
       THEN a2b_loop(cs, i + 1, quad_pos, leftchar, leftbits, out)
       ELSE [out |-> out, leftbits |-> 0]
  ELSE IF ~IsB64Char(cs[i])
  THEN a2b_loop(cs, i + 1, quad_pos, leftchar, leftbits, out)
  ELSE LET lc == leftchar * 64 + (CHOOSE n \in 0..63 : B64Alphabet(n) = cs[i])
           lb == leftbits + 6
       IN IF lb >= 8
          THEN a2b_loop(cs, i + 1, (quad_pos + 1) % 4, lc % (2 ^ (lb - 8)), lb - 8,
                        Append(out, lc \div (2 ^ (lb - 8))))
          ELSE a2b_loop(cs, i + 1, (quad_pos + 1) % 4, lc, lb, out)

\* base64.b64encode(s): [err, value]
b64encode(x) ==
  IF x.t # "bytes"
  THEN [err |-> PyException("TypeError", <<"must be string or buffer">>), value |-> PyNone]
  ELSE [err |-> NoError, value |-> PyBytes(b2a_base64(x.v))]

\* base64.b64decode(s): [err, value]; binascii.Error is turned into TypeError
b64decode(x) ==
  IF x.t # "bytes"
  THEN [err |-> PyException("TypeError", <<"must be string or buffer">>), value |-> PyNone]
  ELSE LET r == a2b_loop(x.v, 1, 0, 0, 0, <<>>)
       IN IF r.leftbits # 0
          THEN [err |-> PyException("TypeError", <<"Incorrect padding">>), value |-> PyNone]
          ELSE [err |-> NoError, value |-> PyBytes(r.out)]

\* ----------------------------------------------------- binary payload codec
\* the first failure of a sequence of [err, value] results, NoError if none
FirstError(rs) ==
  LET bad == {i \in 1..Len(rs) : rs[i].err.type # "none"}
  IN IF bad = {} THEN NoError ELSE rs[CHOOSE i \in bad : \A j \in bad : i <= j].err

\* decode_base64 gone wrong: lists and mappings are not recursed into
decode_base64_shallow(data) ==
  IF data.t = "dict" /\ DOMAIN data.v = {"b64"} THEN b64decode(data.v["b64"])
  ELSE [err |-> NoError, value |-> data]

\* decode_base64 gone wrong: any mapping that has the key "b64" is taken for a
\* marker ("b64" in data in the place of data.viewkeys() == {"b64"})
RECURSIVE decode_base64_haskey(_)
decode_base64_haskey(data) ==
  IF data.t = "list"
  THEN LET rs == [i \in 1..Len(data.v) |-> decode_base64_haskey(data.v[i])]
       IN IF FirstError(rs).type # "none" THEN [err |-> FirstError(rs), value |-> PyNone]
          ELSE [err |-> NoError, value |-> PyList([i \in 1..Len(rs) |-> rs[i].value])]
  ELSE IF data.t = "dict"
  THEN IF "b64" \in DOMAIN data.v
       THEN b64decode(data.v["b64"])
       ELSE LET ks == keys(data.v)
                rs == [i \in 1..Len(ks) |-> decode_base64_haskey(data.v[ks[i]])]
            IN IF FirstError(rs).type # "none" THEN [err |-> FirstError(rs), value |-> PyNone]
               ELSE [err |-> NoError,
                     value |-> PyDict([k \in DOMAIN data.v |-> decode_base64_haskey(data.v[k]).value])]
  ELSE [err |-> NoError, value |-> data]

\* decode_base64(data): [err, value]
RECURSIVE decode_base64(_)
decode_base64(data) ==
  IF data.t = "list"
  THEN LET rs == [i \in 1..Len(data.v) |-> decode_base64(data.v[i])]
       IN IF FirstError(rs).type # "none" THEN [err |-> FirstError(rs), value |-> PyNone]
          ELSE [err |-> NoError, value |-> PyList([i \in 1..Len(rs) |-> rs[i].value])]
  ELSE IF data.t = "dict"
  THEN IF DOMAIN data.v = {"b64"}
       THEN b64decode(data.v["b64"])
       ELSE LET ks == keys(data.v)
                rs == [i \in 1..Len(ks) |-> decode_base64(data.v[ks[i]])]
            IN IF FirstError(rs).type # "none" THEN [err |-> FirstError(rs), value |-> PyNone]
               ELSE [err |-> NoError,
                     value |-> PyDict([k \in DOMAIN data.v |-> decode_base64(data.v[k]).value])]
  ELSE [err |-> NoError, value |-> data]

\* _encode_str_tensor(data): [err, value]
RECURSIVE encode_str_tensor(_)
encode_str_tensor(data) ==
  IF data.t = "list"
  THEN LET rs == [i \in 1..Len(data.v) |-> encode_str_tensor(data.v[i])]
       IN IF FirstError(rs).type # "none" THEN [err |-> FirstError(rs), value |-> PyNone]
          ELSE [err |-> NoError, value |-> PyList([i \in 1..Len(rs) |-> rs[i].value])]
  ELSE IF b64encode(data).err.type # "none" THEN b64encode(data)
  ELSE [err |-> NoError, value |-> PyDict("b64" :> b64encode(data).value)]

\* the characters of the tensor names of the model
NameChars(name) ==
  CASE name = "img_bytes" -> <<"i", "m", "g", "_", "b", "y", "t", "e", "s">>
    [] name = "f_bytes" -> <<"f", "_", "b", "y", "t", "e", "s">>
    [] name = "xbytes" -> <<"x", "b", "y", "t", "e", "s">>
    [] OTHER -> <<name>>

\* str.endswith
endswith(cs, suffix) ==
  Len(cs) >= Len(suffix) /\ SubSeq(cs, Len(cs) - Len(suffix) + 1, Len(cs)) = suffix

\* needs_encoding gone wrong: the test of the declared type is left out
needs_encoding_anytype(tensor_name, tensor_info) ==
  endswith(NameChars(tensor_name), <<"_", "b", "y", "t", "e", "s">>)

\* tensor_type == dtypes.string and tensor_name.endswith("_bytes")
needs_encoding(tensor_name, tensor_info) ==
  tensor_info.dtype = "string"
  /\ endswith(NameChars(tensor_name), <<"_", "b", "y", "t", "e", "s">>)

\* instance[tensor_name] and its encoding, for one field of one instance
encode_field(inst, tensor_name, tensor_info) ==
  IF inst.t # "dict"
  THEN [err |-> PyException("TypeError", <<"indices must be integers">>), value |-> PyNone]
  ELSE IF tensor_name \notin DOMAIN inst.v
  THEN [err |-> PyException("KeyError", <<tensor_name>>), value |-> PyNone]
  ELSE IF needs_encoding(tensor_name, tensor_info) THEN encode_str_tensor(inst.v[tensor_name])
  ELSE [err |-> NoError, value |-> inst.v[tensor_name]]

\* the body of the loop over the instances: one encoded instance
encode_instance(inst, outputs_map) ==
  LET ks == keys(outputs_map)
      rs == [i \in 1..Len(ks) |-> encode_field(inst, ks[i], outputs_map[ks[i]])]
  IN IF FirstError(rs).type # "none" THEN [err |-> FirstError(rs), value |-> PyNone]
     ELSE [err |-> NoError,
           value |-> PyDict([k \in DOMAIN outputs_map |-> encode_field(inst, k, outputs_map[k]).value])]

\* encode_base64(insts, outputs_map): [err, value]
encode_base64(insts, outputs_map) ==
  IF insts.t # "list"
  THEN [err |-> PyException("ValueError", <<"only lists allowed in output">>), value |-> PyNone]
  ELSE IF insts.v = <<>> THEN [err |-> NoError, value |-> insts]
  ELSE IF insts.v[1].t # "dict"
  THEN IF Cardinality(DOMAIN outputs_map) # 1
       THEN [err |-> NoError,
             value |-> [t |-> "ValueError", v |-> <<"The first instance was a string, but there are more than one output tensor, so dict expected.">>]]
       ELSE LET tensor_name == keys(outputs_map)[1]
            IN IF needs_encoding(tensor_name, outputs_map[tensor_name])
               THEN encode_str_tensor(insts)
               ELSE [err |-> NoError, value |-> insts]
  ELSE LET rs == [i \in 1..Len(insts.v) |-> encode_instance(insts.v[i], outputs_map)]
       IN IF FirstError(rs).type # "none" THEN [err |-> FirstError(rs), value |-> PyNone]
          ELSE [err |-> NoError, value |-> PyList([i \in 1..Len(rs) |-> rs[i].value])]

\* ------------------------------------------------------ custom model loader
\* the truth value Python gives a value in "if not x" and "x or y"
Truthy(x) ==
  CASE x.t = "NoneType" -> FALSE
    [] x.t = "int" -> x.v # 0
    [] x.t = "str" -> x.v # ""
    [] x.t = "list" -> x.v # <<>>
    [] x.t = "dict" -> DOMAIN x.v # {}
    [] OTHER -> TRUE

\* json.loads gives back the document of a JSON text (tag "json"), and raises
\* ValueError for a text that is no JSON
json_loads(text) ==
  IF text.t = "json" THEN [err |-> NoError, value |-> text.v]
  ELSE [err |-> PyException("ValueError", <<"No JSON object could be decoded">>), value |-> PyNone]

\* d.get(key) gone wrong: d[key], which raises KeyError for a missing key
dict_get_index(d, key) ==
  IF d.t # "dict" THEN [err |-> PyException("AttributeError", <<"get">>), value |-> PyNone]
  ELSE IF key \in DOMAIN d.v THEN [err |-> NoError, value |-> d.v[key]]
  ELSE [err |-> PyException("KeyError", <<key>>), value |-> PyNone]

\* d.get(key): None for a missing key; a value that is no dict has no get
dict_get(d, key) ==
  IF d.t # "dict" THEN [err |-> PyException("AttributeError", <<"get">>), value |-> PyNone]
  ELSE IF key \in DOMAIN d.v THEN [err |-> NoError, value |-> d.v[key]]
  ELSE [err |-> NoError, value |-> PyNone]

\* The classes user code can provide, by fully qualified name: whether predict
\* is a method ("method"), another attribute ("attr") or missing ("none"), the
\* argument names of the method, and whether signature exists.  "error" stands
\* for a module whose import fails.
UserClass(predict, args, signature) ==
  [t |-> "class", v |-> [predict |-> predict, args |-> args, signature |-> signature]]
UserCode ==
  "pkg.Good" :> UserClass("method", <<"self", "instances", "stats">>, TRUE)
  @@ "pkg.Renamed" :> UserClass("method", <<"me", "rows", "timing">>, TRUE)
  @@ "pkg.NoPredict" :> UserClass("none", <<>>, TRUE)
  @@ "pkg.NoSignature" :> UserClass("method", <<"self", "instances", "stats">>, FALSE)
  @@ "pkg.OneFewer" :> UserClass("method", <<"self", "instances">>, TRUE)
  @@ "pkg.OneMore" :> UserClass("method", <<"self", "instances", "stats", "extra">>, TRUE)
  @@ "pkg.PredictAttr" :> UserClass("attr", <<>>, TRUE)
  @@ "pkg.Broken" :> [t |-> "error", v |-> "ErrorDuringImport"]

\* pydoc.locate(path): the object of that name, None if there is none; an
\* import that fails raises ErrorDuringImport
locate(path) ==
  IF path \notin DOMAIN UserCode THEN [err |-> NoError, value |-> PyNone]
  ELSE IF UserCode[path].t = "error"
  THEN [err |-> PyException("ErrorDuringImport", <<path>>), value |-> PyNone]
  ELSE [err |-> NoError, value |-> UserCode[path]]

\* inspect.getargspec(Model.predict)[0] of the Model interface
Model_predict_args == <<"self", "instances", "stats">>

\* an instance of a model class
Instance(class_name) == [t |-> "instance", v |-> class_name]

\* validate_model_class gone wrong: only a predict with fewer arguments is rejected
validate_model_class_fewer(class_name, user_class) ==
  IF user_class.v.predict = "none"
  THEN PredictionError(INVALID_USER_CODE, <<"missing the required predict method", class_name>>)
  ELSE IF ~user_class.v.signature
  THEN PredictionError(INVALID_USER_CODE, <<"missing the required signature property", class_name>>)
  ELSE IF user_class.v.predict # "method"
  THEN PyException("TypeError", <<"is not a Python function">>)
  ELSE IF Len(Model_predict_args) > Len(user_class.v.args)
  THEN PredictionError(INVALID_USER_CODE,
         <<"invalid signature", class_name, Model_predict_args, user_class.v.args>>)
  ELSE NoError

\* _validate_model_class(user_class): the error it raises, NoError if none.
\* "predict_num_args is not user_predict_num_args" compares two small integers,
\* which are the same object exactly when they are equal.
validate_model_class(class_name, user_class) ==
  IF user_class.v.predict = "none"
  THEN PredictionError(INVALID_USER_CODE, <<"missing the required predict method", class_name>>)
  ELSE IF ~user_class.v.signature
  THEN PredictionError(INVALID_USER_CODE, <<"missing the required signature property", class_name>>)
  ELSE IF user_class.v.predict # "method"
  THEN PyException("TypeError", <<"is not a Python function">>)
  ELSE IF Len(Model_predict_args) # Len(user_class.v.args)
  THEN PredictionError(INVALID_USER_CODE,
         <<"invalid signature", class_name, Model_predict_args, user_class.v.args>>)
  ELSE NoError

\* the tail of load_model_class once model_class_name is known to be set
load_named_class(version, model_class_name) ==
  LET found == locate(model_class_name.v)
      uris == dict_get(version, "package_uris")
  IN IF found.err.type # "none" THEN [err |-> found.err, value |-> PyNone]
     ELSE IF ~Truthy(found.value)
     THEN IF uris.value.t # "list"
          THEN [err |-> PyException("TypeError", <<"object is not iterable">>), value |-> PyNone]
          ELSE [err |-> PredictionError(INVALID_USER_CODE,
                          <<"cannot be found", model_class_name.v,
                            [i \in 1..Len(uris.value.v) |-> uris.value.v[i].v]>>),
                value |-> PyNone]
     ELSE IF validate_model_class(model_class_name.v, found.value).type # "none"
     THEN [err |-> validate_model_class(model_class_name.v, found.value), value |-> PyNone]
     ELSE [err |-> NoError, value |-> Instance(model_class_name.v)]

\* load_model_class(client, model_path), given the value of the environment
\* variable create_version_request: [err, value]; value None is "no custom model"
load_model_class(create_version_json) ==
  LET none == [err |-> NoError, value |-> PyNone]
      request == json_loads(create_version_json)
      version == dict_get(request.value, "version")
      model_class_name == dict_get(version.value, "model_class")
  IN IF ~Truthy(create_version_json) THEN none
     ELSE IF request.err.type # "none" THEN request
     ELSE IF ~Truthy(request.value) THEN none
     ELSE IF version.err.type # "none" THEN version
     ELSE IF ~Truthy(version.value) THEN none
     ELSE IF model_class_name.err.type # "none" THEN model_class_name
     ELSE IF ~Truthy(model_class_name.value) THEN none
     ELSE load_named_class(version.value, model_class_name.value)

\* ------------------------------------------------------------ Timer, Stats
\* Timer.__exit__ gone wrong: it returns True and suppresses the exception
Timer_exit_suppress == TRUE

\* The value Timer.__exit__ returns: False, so an exception raised inside the
\* with block is not suppressed.
Timer_exit == FALSE

EmptyStats == [k \in {} |-> "us"]

\* the assignment self[name] = value of a Stats (a dict)
StatsSet(d, name, value) == [k \in (DOMAIN d) \cup {name} |-> IF k = name THEN value ELSE d[k]]

\* Stats.time(name) left normally: self[name] = timer.microseconds
StatsTime(d, name) == StatsSet(d, name, "us")

RECURSIVE StatsTimeAll(_, _)
StatsTimeAll(d, names) ==
  IF names = <<>> THEN d ELSE StatsTimeAll(StatsTime(d, Head(names)), Tail(names))

\* stats = stats or Stats(): None and an empty Stats are both falsy
stats_is_given(arg) == arg.given /\ DOMAIN arg.d # {}

\* ------------------------------------------- Timer: the duration properties
MICRO == 1000000
MILLI == 1000

\* Timer.seconds with now the reading its own call of the timer function gets:
\* (self.end or now) - (self.start or now)
Timer_seconds(start, end, now) ==
  (IF Truthy(end) THEN end.v ELSE now) - (IF Truthy(start) THEN start.v ELSE now)

\* the duration properties.  The readings of the model are whole numbers of
\* seconds, of which int(MICRO * seconds) and int(MILLI * seconds) cut nothing.
Timer_property(prop, start, end, now) ==
  CASE prop = "seconds" -> Timer_seconds(start, end, now)
    [] prop = "microseconds" -> MICRO * Timer_seconds(start, end, now)
    [] prop = "milliseconds" -> MILLI * Timer_seconds(start, end, now)

\* ---------------------------------------------------------------- Signature
TensorInfo(name, dtype) == [name |-> name, dtype |-> dtype]
SigSingle == [inputs |-> ("t" :> TensorInfo("t:0", "string")),
              outputs |-> ("p" :> TensorInfo("p:0", "float"))]
SigMulti == [inputs |-> ("a" :> TensorInfo("a:0", "float") @@ "b" :> TensorInfo("b:0", "float")),
             outputs |-> ("p" :> TensorInfo("p:0", "float") @@ "q" :> TensorInfo("q:0", "string"))]
Signatures == {SigSingle, SigMulti}

\* output_tensors gone wrong: the fetch list in the reverse of the order of the
\* declared outputs
output_tensors_reversed(signature) ==
  [i \in 1..Len(keys(signature.outputs)) |->
     signature.outputs[keys(signature.outputs)[Len(keys(signature.outputs)) + 1 - i]].name]

\* SessionClient.__init__: the cached fetch list
output_tensors(signature) ==
  [i \in 1..Len(keys(signature.outputs)) |-> signature.outputs[keys(signature.outputs)[i]].name]

\* DefaultModel.is_single_input()
is_single_input(signature) == Cardinality(DOMAIN signature.inputs) = 1

\* The condition "if self.is_single_input:" of DefaultModel.predict tests the
\* bound method itself, not its result: a method object is always true.
is_single_input_attr(signature) == TRUE

\* ------------------------------------------------------------ load_model
\* _update_dtypes(graph, interface): [err, value].  Every tensor of the graph
\* of the model is a float tensor; a TensorInfo without dtype ("") gets the
\* dtype of the graph, one with another dtype is a ValueError.
update_dtypes(interface) ==
  LET GraphDtype(name) == "float"
      bad == {a \in DOMAIN interface :
                interface[a].dtype # "" /\ interface[a].dtype # GraphDtype(interface[a].name)}
  IN IF bad # {}
     THEN [err |-> PyException("ValueError", <<"Specified data types do not match for alias",
                                               CHOOSE a \in bad : TRUE>>),
           value |-> interface]
     ELSE [err |-> NoError,
           value |-> [a \in DOMAIN interface |->
                        TensorInfo(interface[a].name, GraphDtype(interface[a].name))]]

\* _get_signature_from_meta_graph gone wrong: the requested key is looked up
\* before the named key
get_signature_requested_first(signature_def, signature_name) ==
  LET named_key == "serving_default_from_named"
  IN IF DOMAIN signature_def = {}
     THEN [err |-> PredictionError(FAILED_TO_LOAD_MODEL, <<"MetaGraph must have at least one signature_def.">>),
           value |-> PyNone]
     ELSE IF signature_name \in DOMAIN signature_def
     THEN LET signature == signature_def[signature_name]
              ins == update_dtypes(signature.inputs)
              outs == update_dtypes(signature.outputs)
          IN IF ins.err.type # "none" THEN [err |-> ins.err, value |-> PyNone]
             ELSE IF outs.err.type # "none" THEN [err |-> outs.err, value |-> PyNone]
             ELSE [err |-> NoError,
                   value |-> [signature EXCEPT !.inputs = ins.value, !.outputs = outs.value]]
     ELSE IF named_key \in DOMAIN signature_def
     THEN [err |-> NoError, value |-> signature_def[named_key]]
     ELSE [err |-> PredictionError(FAILED_TO_LOAD_MODEL, <<"No signature found for signature key", signature_name>>),
           value |-> PyNone]

\* _get_signature_from_meta_graph(graph, meta_graph, signature_name): [err, value]
get_signature_from_meta_graph(signature_def, signature_name) ==
  LET named_key == "serving_default_from_named"
  IN IF DOMAIN signature_def = {}
     THEN [err |-> PredictionError(FAILED_TO_LOAD_MODEL, <<"MetaGraph must have at least one signature_def.">>),
           value |-> PyNone]
     ELSE IF named_key \in DOMAIN signature_def
     THEN [err |-> NoError, value |-> signature_def[named_key]]
     ELSE IF signature_name \notin DOMAIN signature_def
     THEN [err |-> PredictionError(FAILED_TO_LOAD_MODEL, <<"No signature found for signature key", signature_name>>),
           value |-> PyNone]
     ELSE LET signature == signature_def[signature_name]
              ins == update_dtypes(signature.inputs)
              outs == update_dtypes(signature.outputs)
          IN IF ins.err.type # "none" THEN [err |-> ins.err, value |-> PyNone]
             ELSE IF outs.err.type # "none" THEN [err |-> outs.err, value |-> PyNone]
             ELSE [err |-> NoError,
                   value |-> [signature EXCEPT !.inputs = ins.value, !.outputs = outs.value]]

\* ----------------------------------------------------------- DefaultModel
\* parse_single_tensor gone wrong: the len(x) == 1 test is left out
parse_single_tensor_raises_anykey(x, tensor_name) ==
  x.t = "dict" /\ ~(tensor_name \in DOMAIN x.v)

\* parse_single_tensor raises for a dict that is not exactly {tensor_name: value}
parse_single_tensor_raises(x, tensor_name) ==
  x.t = "dict" /\ ~(Cardinality(DOMAIN x.v) = 1 /\ tensor_name \in DOMAIN x.v)
parse_single_tensor(x, tensor_name) == IF x.t # "dict" THEN x ELSE x.v[tensor_name]

\* DefaultModel._preprocess with no preprocess_fn (from_client sets None)
preprocess(insts) == insts

\* DefaultModel.maybe_preprocess: [err, value]
maybe_preprocess(signature, insts) ==
  IF ~is_single_input(signature) THEN [err |-> NoError, value |-> insts]
  ELSE LET tensor_name == keys(signature.inputs)[1]
           lst == IF insts.t = "list" THEN insts.v ELSE <<insts>>
           bad == {i \in 1..Len(lst) : parse_single_tensor_raises(lst[i], tensor_name)}
           first == CHOOSE i \in bad : \A j \in bad : i <= j
       IN IF bad # {}
          THEN [err |-> PredictionError(INVALID_INPUTS,
                           <<"Expected tensor name", tensor_name, DOMAIN lst[first].v>>),
                value |-> insts]
          ELSE [err |-> NoError,
                value |-> PyList(preprocess([i \in 1..Len(lst) |-> parse_single_tensor(lst[i], tensor_name)]))]

\* DefaultModel._get_columns: [err, value]
get_columns(signature, insts) ==
  IF is_single_input(signature)
  THEN [err |-> NoError, value |-> (keys(signature.inputs)[1] :> insts)]
  ELSE IF ~Iterable(insts)
  THEN [err |-> PyException("TypeError", <<"object is not iterable">>), value |-> EmptyFn]
  ELSE IF columnarize_raises(Iterate(insts))
  THEN [err |-> PyException("AttributeError", <<"iteritems">>), value |-> EmptyFn]
  ELSE [err |-> NoError, value |-> columnarize(Iterate(insts))]

\* short_columns gone wrong: the check only rejects columns that are too long
short_columns_longer(cols, insts) ==
  {k \in DOMAIN cols : cols[k].t = "list" /\ Len(cols[k].v) > PyLen(insts)}

\* short_columns gone wrong: the length check is left out
short_columns_none(cols, insts) == {}

\* the columns the length check of the Columnarize phase rejects
short_columns(cols, insts) ==
  {k \in DOMAIN cols : cols[k].t = "list" /\ Len(cols[k].v) # PyLen(insts)}

\* listify gone wrong: only values without a shape are wrapped
listify_shapeless(value) ==
  IF ~HasShape(value) THEN asarray(PyList(<<value>>)) ELSE value

\* listify of the Rowify phase
listify(value) ==
  IF ~HasShape(value) THEN asarray(PyList(<<value>>))
  ELSE IF value.v.shape = <<>> THEN expand_dims(value)
  ELSE value

\* ------------------------------------------------------ the execution engine
EngineMessages == {"bad shape", "missing op"}
Elem(name, i) == [t |-> "elem", v |-> <<name, i>>]

\* what session.run can hand back for one fetch: a value without shape, a 0-d
\* array, or an array with an outer dimension of 0..MaxInstances
EngineValues(name) ==
  {Elem(name, 0), NdArray(<<>>, <<Elem(name, 1)>>)}
  \cup {NdArray(<<n>>, [i \in 1..n |-> Elem(name, i)]) : n \in 0..MaxInstances}

EngineResults(fetches) ==
  {r \in SeqsUpTo(UNION {EngineValues(fetches[i]) : i \in 1..Len(fetches)}, Len(fetches)) :
     /\ Len(r) = Len(fetches)
     /\ \A i \in 1..Len(fetches) : r[i] \in EngineValues(fetches[i])}

\* ------------------------------------------------------------ request payloads
Instances ==
  {PyInt(1), PyStr("xy"),
   PyDict("t" :> PyInt(1)),
   PyDict("a" :> PyInt(1) @@ "b" :> PyInt(2)),
   PyDict("a" :> PyInt(1)),
   PyDict("b" :> PyInt(2)),
   PyDict("a" :> PyInt(1) @@ "z" :> PyInt(3)),
   PyDict("t" :> PyInt(1) @@ "z" :> PyInt(3)),
   PyDict(EmptyFn)}

\* a list of instances, or a single instance that is not a list
Payloads == {PyList(q) : q \in SeqsUpTo(Instances, MaxInstances)} \cup Instances

StatsArgs == {[given |-> FALSE, d |-> EmptyStats],
              [given |-> TRUE, d |-> EmptyStats],
              [given |-> TRUE, d |-> ("count" :> "1")]}

\* ------------------------------------------------------ DefaultModel.predict
Events(what, names) == [i \in 1..Len(names) |-> <<what, names[i]>>]

\* Finish gone wrong: Stats.time writes its entry in a finally clause, so the
\* blocks an exception passes through get an entry as well
Finish_finally(sh, base, e, enters, middle, exits, unwound, next) ==
  /\ raised' = IF e.type = "none" THEN raised ELSE e
  /\ IF e.type = "none" \/ Timer_exit
     THEN /\ stats' = StatsTimeAll(base, exits)
          /\ callerStats' = IF sh THEN [callerStats EXCEPT !.d = StatsTimeAll(base, exits)]
                            ELSE callerStats
          /\ log' = log \o Events("enter", enters) \o middle \o Events("exit", exits)
          /\ pc' = next
          /\ err' = err
     ELSE /\ stats' = StatsTimeAll(base, unwound)
          /\ callerStats' = IF sh THEN [callerStats EXCEPT !.d = StatsTimeAll(base, unwound)]
                            ELSE callerStats
          /\ log' = log \o Events("enter", enters) \o middle \o Events("raise", unwound)
          /\ pc' = "raised"
          /\ err' = e

\* How a statement run inside "with stats.time(...)" blocks ends.  e is the
\* exception it raises (NoError if none), base the stats entries at that point,
\* enters the blocks entered, exits the blocks left on the normal path, unwound
\* the blocks an exception passes through, next the statement that follows.
\* Stats.time writes self[name] only when the block is left normally; an
\* exception goes through Timer.__exit__ and, not suppressed, to the caller.
Finish(sh, base, e, enters, middle, exits, unwound, next) ==
  /\ raised' = IF e.type = "none" THEN raised ELSE e
  /\ IF e.type = "none" \/ Timer_exit
     THEN /\ stats' = StatsTimeAll(base, exits)
          /\ callerStats' = IF sh THEN [callerStats EXCEPT !.d = StatsTimeAll(base, exits)]
                            ELSE callerStats
          /\ log' = log \o Events("enter", enters) \o middle \o Events("exit", exits)
          /\ pc' = next
          /\ err' = err
     ELSE /\ stats' = base
          /\ callerStats' = IF sh THEN [callerStats EXCEPT !.d = base] ELSE callerStats
          /\ log' = log \o Events("enter", enters) \o middle \o Events("raise", unwound)
          /\ pc' = "raised"
          /\ err' = e

\* predict_next gone wrong: the Rowify phase placed right after Columnarize
predict_next_skip(phase) ==
  CASE phase = "preprocess" -> "columnarize"
    [] phase = "columnarize" -> "rowify"
    [] phase = "alias" -> "rowify"
    [] phase = "rowify" -> "input_processing"
    [] phase = "input_processing" -> "returned"

\* the statement of DefaultModel.predict that follows each phase
predict_next(phase) ==
  CASE phase = "preprocess" -> "columnarize"
    [] phase = "columnarize" -> "unalias"
    [] phase = "alias" -> "rowify"
    [] phase = "rowify" -> "input_processing"
    [] phase = "input_processing" -> "returned"

\* client_next gone wrong: after session.run the client waits for something
\* that never comes
client_next_wait(step) ==
  CASE step = "unalias" -> "session_run"
    [] step = "session_run" -> "session_wait"

\* the statement of SessionClient.predict that follows each of its steps
client_next(step) ==
  CASE step = "unalias" -> "session_run"
    [] step = "session_run" -> "alias"

\* stats = stats or Stats(); with stats.time(PREPROCESS_TIME): maybe_preprocess
Preprocess ==
  /\ pc = "preprocess"
  /\ shared' = stats_is_given(callerStats)
  /\ LET r == maybe_preprocess(sig, instances)
         base == IF stats_is_given(callerStats) THEN callerStats.d ELSE EmptyStats
     IN /\ preprocessed' = IF r.err.type = "none" THEN r.value ELSE preprocessed
        /\ Finish(stats_is_given(callerStats), base, r.err, <<PREPROCESS_TIME>>, <<>>,
                  <<PREPROCESS_TIME>>, <<PREPROCESS_TIME>>, predict_next("preprocess"))
  /\ UNCHANGED <<sig, instances, columns, unaliased, fetched, outputs, gen, inputs, rows>>

\* the error of the length check for column k
missing_input_error(k) ==
  PredictionError(INVALID_INPUTS, <<"Input was missing in at least one input instance", k>>)

\* with stats.time(COLUMNARIZE_TIME): _get_columns and the length check
Columnarize ==
  /\ pc = "columnarize"
  /\ LET r == get_columns(sig, preprocessed)
         short == IF r.err.type = "none" THEN short_columns(r.value, preprocessed) ELSE {}
     IN IF r.err.type # "none"
        THEN /\ columns' = columns
             /\ Finish(shared, stats, r.err, <<COLUMNARIZE_TIME>>, <<>>, <<COLUMNARIZE_TIME>>,
                       <<COLUMNARIZE_TIME>>, predict_next("columnarize"))
        ELSE /\ columns' = r.value
             /\ IF short = {}
                THEN Finish(shared, stats, NoError, <<COLUMNARIZE_TIME>>, <<>>, <<COLUMNARIZE_TIME>>,
                            <<COLUMNARIZE_TIME>>, predict_next("columnarize"))
                ELSE \E k \in short :
                       Finish(shared, stats, missing_input_error(k), <<COLUMNARIZE_TIME>>, <<>>,
                              <<COLUMNARIZE_TIME>>, <<COLUMNARIZE_TIME>>, predict_next("columnarize"))
  /\ UNCHANGED <<sig, instances, shared, preprocessed, unaliased, fetched, outputs, gen, inputs, rows>>

\* input_mismatch_error gone wrong: the wrong error kind
input_mismatch_error_kind(k) == PredictionError(FAILED_TO_RUN_GRAPH, <<"Input mismatch: ", k>>)

\* the error of the alias translation for input key k
input_mismatch_error(k) == PredictionError(INVALID_INPUTS, <<"Input mismatch: ", k>>)

\* the aliases of the batch that are no declared input of the Signature
unknown_aliases(signature, cols) == (DOMAIN cols) \ (DOMAIN signature.inputs)

\* the feed_dict: storage name -> column
unalias(signature, cols) ==
  [n \in {signature.inputs[k].name : k \in DOMAIN cols} |->
     cols[CHOOSE k \in DOMAIN cols : signature.inputs[k].name = n]]

\* Unalias gone wrong: the alias translation takes every entry it uses out of
\* the Signature (inputs.pop(key) in the place of inputs[key])
Unalias_popping ==
  /\ pc = "unalias"
  /\ unknown_aliases(sig, columns) = {}
  /\ unaliased' = unalias(sig, columns)
  /\ sig' = [sig EXCEPT !.inputs = [k \in (DOMAIN sig.inputs) \ (DOMAIN columns) |-> sig.inputs[k]]]
  /\ Finish(shared, StatsSet(stats, ENGINE, "SessionRun"), NoError, <<ENGINE_RUN_TIME, UNALIAS_TIME>>,
            <<>>, <<UNALIAS_TIME>>, <<UNALIAS_TIME, ENGINE_RUN_TIME>>, client_next("unalias"))
  /\ UNCHANGED <<instances, shared, preprocessed, columns, fetched, outputs, gen, inputs, rows>>

\* with stats.time(ENGINE_RUN_TIME): client.predict(columns, stats), first part:
\* stats[ENGINE] = "SessionRun"; with stats.time(UNALIAS_TIME): unaliased = ...
Unalias ==
  /\ pc = "unalias"
  /\ LET base == StatsSet(stats, ENGINE, "SessionRun")
         bad == unknown_aliases(sig, columns)
     IN IF bad = {}
        THEN /\ unaliased' = unalias(sig, columns)
             /\ Finish(shared, base, NoError, <<ENGINE_RUN_TIME, UNALIAS_TIME>>, <<>>,
                       <<UNALIAS_TIME>>, <<UNALIAS_TIME, ENGINE_RUN_TIME>>, client_next("unalias"))
        ELSE /\ unaliased' = unaliased
             /\ \E k \in bad :
                  Finish(shared, base, input_mismatch_error(k), <<ENGINE_RUN_TIME, UNALIAS_TIME>>, <<>>,
                         <<UNALIAS_TIME>>, <<UNALIAS_TIME, ENGINE_RUN_TIME>>, client_next("unalias"))
  /\ UNCHANGED <<sig, instances, shared, preprocessed, columns, fetched, outputs, gen, inputs, rows>>

\* session_run_error gone wrong: the message of the engine is dropped
session_run_error_nomsg(m) ==
  PredictionError(FAILED_TO_RUN_GRAPH, <<"Exception during running the graph: ", "">>)

\* the PredictionError that replaces an exception of session.run with message m
session_run_error(m) ==
  PredictionError(FAILED_TO_RUN_GRAPH, <<"Exception during running the graph: ", m>>)

\* with stats.time(SESSION_RUN_TIME): outputs = self._session.run(...)
\* The engine either raises (any message) or returns one value per fetch.
SessionRun ==
  /\ pc = "session_run"
  /\ \/ \E m \in EngineMessages :
          /\ fetched' = fetched
          /\ Finish(shared, stats, session_run_error(m), <<SESSION_RUN_TIME>>,
                    <<<<"run", "engine">>, <<"engine_raised", m>>>>,
                    <<SESSION_RUN_TIME>>, <<SESSION_RUN_TIME, ENGINE_RUN_TIME>>,
                    client_next("session_run"))
     \/ \E r \in EngineResults(output_tensors(sig)) :
          /\ fetched' = r
          /\ Finish(shared, stats, NoError, <<SESSION_RUN_TIME>>, <<<<"run", "engine">>>>,
                    <<SESSION_RUN_TIME>>, <<SESSION_RUN_TIME, ENGINE_RUN_TIME>>,
                    client_next("session_run"))
  /\ UNCHANGED <<sig, instances, shared, preprocessed, columns, unaliased, outputs, gen, inputs, rows>>

\* with stats.time(ALIAS_TIME): return dict(zip(outputs.iterkeys(), outputs)),
\* which also leaves the ENGINE_RUN_TIME block of DefaultModel.predict
Alias ==
  /\ pc = "alias"
  /\ outputs' = Zip(keys(sig.outputs), fetched)
  /\ Finish(shared, stats, NoError, <<ALIAS_TIME>>, <<>>, <<ALIAS_TIME, ENGINE_RUN_TIME>>,
            <<ALIAS_TIME, ENGINE_RUN_TIME>>, predict_next("alias"))
  /\ UNCHANGED <<sig, instances, shared, preprocessed, columns, unaliased, fetched, gen, inputs, rows>>

\* with stats.time(ROWIFY_TIME): listify every output, outputs = rowify(outputs).
\* rowify is a generator function: the call creates the generator, no more.
Rowify ==
  /\ pc = "rowify"
  /\ gen' = rowify([k \in DOMAIN outputs |-> listify(outputs[k])])
  /\ Finish(shared, stats, NoError, <<ROWIFY_TIME>>, <<>>, <<ROWIFY_TIME>>, <<ROWIFY_TIME>>,
            predict_next("rowify"))
  /\ UNCHANGED <<sig, instances, shared, preprocessed, columns, unaliased, fetched, outputs, inputs, rows>>

\* the inputs echoed for the original instances
reflect_inputs(signature, insts) ==
  IF is_single_input_attr(signature)
  THEN PyList([i \in 1..Len(Iterate(insts)) |->
                 PyDict(keys(signature.inputs)[1] :> Iterate(insts)[i])])
  ELSE insts

\* with stats.time(INPUT_PROCESSING_TIME): inputs = ...; return inputs, outputs
InputProcessing ==
  /\ pc = "input_processing"
  /\ IF is_single_input_attr(sig) /\ ~Iterable(instances)
     THEN /\ inputs' = inputs
          /\ Finish(shared, stats, PyException("TypeError", <<"object is not iterable">>),
                    <<INPUT_PROCESSING_TIME>>, <<>>, <<INPUT_PROCESSING_TIME>>,
                    <<INPUT_PROCESSING_TIME>>, predict_next("input_processing"))
     ELSE /\ inputs' = reflect_inputs(sig, instances)
          /\ Finish(shared, stats, NoError, <<INPUT_PROCESSING_TIME>>, <<>>,
                    <<INPUT_PROCESSING_TIME>>, <<INPUT_PROCESSING_TIME>>,
                    predict_next("input_processing"))
  /\ UNCHANGED <<sig, instances, shared, preprocessed, columns, unaliased, fetched, outputs, gen, rows>>

\* The caller takes the next output row (local_predict: list(predictions)).
\* The body of rowify runs here, after DefaultModel.predict has returned.
Consume ==
  /\ pc = "returned"
  /\ LET r == gen_next(gen)
     IN /\ gen' = r.gen
        /\ rows' = rows \o r.yielded
        /\ IF r.err.type = "none" THEN UNCHANGED <<pc, raised, err, log>>
           ELSE IF r.err.type = "StopIteration"
           THEN pc' = "consumed" /\ UNCHANGED <<raised, err, log>>
           ELSE /\ pc' = "raised"
                /\ raised' = r.err
                /\ err' = r.err
                /\ log' = Append(log, <<"raise", "consume">>)
  /\ UNCHANGED <<sig, instances, callerStats, shared, stats, preprocessed, columns, unaliased,
                 fetched, outputs, inputs>>

\* ------------------------------------------------------ codec: caller harness
\* the byte strings of the model: up to MaxBytes bytes out of 0, 77 and 255
ByteStrings == SeqsUpTo({0, 77, 255}, MaxBytes)

\* the request a client builds from its data: every byte string is replaced by
\* the marker mapping {"b64": base64 text}
RECURSIVE Mark(_)
Mark(x) ==
  IF x.t = "bytes" THEN PyDict("b64" :> PyBytes(b2a_base64(x.v)))
  ELSE IF x.t = "list" THEN PyList([i \in 1..Len(x.v) |-> Mark(x.v[i])])
  ELSE IF x.t = "dict" THEN PyDict([k \in DOMAIN x.v |-> Mark(x.v[k])])
  ELSE x

\* one more level of lists and mappings around the values of X
Nest(X) ==
  {PyList(<<x>>) : x \in X} \cup {PyList(<<x, PyInt(1)>>) : x \in X}
  \cup {PyDict("a" :> x) : x \in X} \cup {PyDict("b64" :> x) : x \in X}
  \cup {PyDict("a" :> x @@ "b64" :> PyInt(1)) : x \in X}

\* the data of a client: byte strings and scalars, bare or nested twice
Plains ==
  LET PlainLeaves == {PyBytes(x) : x \in ByteStrings} \cup {PyInt(1)}
  IN PlainLeaves \cup Nest(PlainLeaves) \cup Nest(Nest(PlainLeaves))

\* the declared outputs a model can have, and the outputs maps over at most two
OutputMaps ==
  LET OutputFields ==
        "p" :> TensorInfo("p:0", "float") @@ "q" :> TensorInfo("q:0", "string")
        @@ "img_bytes" :> TensorInfo("img_bytes:0", "string")
        @@ "f_bytes" :> TensorInfo("f_bytes:0", "float")
        @@ "xbytes" :> TensorInfo("xbytes:0", "string")
  IN {[k \in S |-> OutputFields[k]] : S \in {T \in SUBSET DOMAIN OutputFields : Cardinality(T) <= 2}}

\* the values an output of the declared type takes in a row
FieldValues(tensor_info) ==
  IF tensor_info.dtype = "string"
  THEN {PyBytes(<<77>>), PyBytes(<<0, 255, 77>>),
        PyList(<<PyBytes(<<77>>), PyList(<<PyBytes(<<>>)>>)>>)}
  ELSE {PyInt(1), PyList(<<PyInt(1), PyInt(2)>>)}

\* the rows rowify yields for a model with the given outputs
Rows(outputs_map) ==
  {PyDict(f) : f \in {g \in [DOMAIN outputs_map ->
                              UNION {FieldValues(outputs_map[k]) : k \in DOMAIN outputs_map}] :
                        \A k \in DOMAIN outputs_map : g[k] \in FieldValues(outputs_map[k])}}

\* what encode_base64 is called with: lists of rows, lists of bare values, a
\* row missing its fields, a row followed by a bare value, and values that are
\* no list
EncodeInputs(outputs_map) ==
  {PyList(q) : q \in SeqsUpTo(Rows(outputs_map), MaxInstances)}
  \cup {PyList(q) : q \in SeqsUpTo({PyBytes(<<77>>), PyInt(1), PyList(<<PyBytes(<<0, 255>>)>>)},
                                    MaxInstances)}
  \cup {PyList(<<PyDict(EmptyFn)>>)}
  \cup {PyList(<<r, PyInt(1)>>) : r \in Rows(outputs_map)}
  \cup {PyBytes(<<77>>), PyDict("p" :> PyInt(1)), PyNone}

\* ------------------------------------------------------ loader: caller harness
\* the values of the environment variable create_version_request: not set, an
\* empty text, a text that is no JSON, and the texts of documents
EnvValues ==
  LET Names == {PyNone, PyStr(""), PyStr("pkg.Missing")} \cup {PyStr(n) : n \in DOMAIN UserCode}
      Uris == {PyList(<<>>), PyList(<<PyStr("gs://a")>>), PyList(<<PyStr("gs://a"), PyStr("gs://b")>>)}
      Versions == {PyNone, PyDict(EmptyFn), PyStr("v1")}
                  \cup {PyDict("model_class" :> n) : n \in Names}
                  \cup {PyDict("package_uris" :> u) : u \in Uris}
                  \cup {PyDict("model_class" :> n @@ "package_uris" :> u) : n \in Names, u \in Uris}
      Documents == {PyNone, PyDict(EmptyFn), PyList(<<>>), PyList(<<PyInt(1)>>),
                    PyDict("name" :> PyStr("m"))}
                   \cup {PyDict("version" :> v) : v \in Versions}
                   \cup {PyDict("version" :> v @@ "name" :> PyStr("m")) : v \in Versions}
  IN {PyNone, PyStr(""), PyStr("{")} \cup {[t |-> "json", v |-> d] : d \in Documents}

\* the variables of the transcoder harness while the pipeline runs
TIdle ==
  /\ t_pc = "idle"
  /\ t_src = "none"
  /\ t_instances = <<>>
  /\ t_columns = EmptyFn
  /\ t_gen = NoGen
  /\ t_rows = <<>>
  /\ t_err = NoError

\* the variables of the pipeline while the transcoder harness runs
MIdle ==
  /\ sig = SigSingle
  /\ instances = PyNone
  /\ callerStats = [given |-> FALSE, d |-> EmptyStats]
  /\ shared = FALSE
  /\ stats = EmptyStats
  /\ pc = "idle"
  /\ preprocessed = PyNone
  /\ columns = EmptyFn
  /\ unaliased = EmptyFn
  /\ fetched = <<>>
  /\ outputs = EmptyFn
  /\ gen = NoGen
  /\ inputs = PyNone
  /\ rows = <<>>
  /\ raised = NoError
  /\ err = NoError
  /\ log = <<>>

\* the variables of the codec harness while another harness runs
CIdle ==
  /\ c_pc = "idle"
  /\ c_fn = "none"
  /\ c_plain = PyNone
  /\ c_arg = PyNone
  /\ c_map = EmptyFn
  /\ c_ret = PyNone
  /\ c_err = NoError

\* the variables of the loader harness while another harness runs
LIdle ==
  /\ l_pc = "idle"
  /\ l_env = PyNone
  /\ l_loaded = PyNone
  /\ l_model = PyNone
  /\ l_err = NoError

\* the variables of the Timer harness while another harness runs
TmIdle ==
  /\ tm_pc = "idle"
  /\ tm_start = PyNone
  /\ tm_end = PyNone
  /\ tm_enter = 0
  /\ tm_exit = 0
  /\ tm_read = [prop |-> "none", value |-> 0]
  /\ tm_spans = 0

\* the variables of the load_model harness while another harness runs
GIdle ==
  /\ g_pc = "idle"
  /\ g_path = "none"
  /\ g_defs = EmptyFn
  /\ g_name = ""
  /\ g_sig = PyNone
  /\ g_err = NoError

\* a single call: no other call is in flight
PIdle ==
  /\ cur = 1
  /\ parked = [pc |-> "none"]

TInit ==
  /\ t_gen = NoGen
  /\ t_rows = <<>>
  /\ t_err = NoError
  /\ \/ /\ t_pc = "start"
        /\ t_src = "instances"
        /\ t_instances \in SeqsUpTo(MappingInstances, MaxInstances)
        /\ t_columns = EmptyFn
     \/ /\ t_pc = "arrays"
        /\ t_src = "batch"
        /\ t_instances = <<>>
        /\ t_columns \in Batches
  /\ MIdle
  /\ CIdle
  /\ LIdle
  /\ PIdle
  /\ TmIdle
  /\ GIdle

\* batch = columnarize(instances)
TColumnarize ==
  /\ t_pc = "start"
  /\ t_columns' = columnarize(t_instances)
  /\ t_pc' = "lists"
  /\ UNCHANGED <<t_src, t_instances, t_gen, t_rows, t_err>>

\* the caller holds every column as a numpy array, as rowify documents
TAsArrays ==
  /\ t_pc = "lists"
  /\ t_columns' = [k \in DOMAIN t_columns |-> asarray(t_columns[k])]
  /\ t_pc' = "arrays"
  /\ UNCHANGED <<t_src, t_instances, t_gen, t_rows, t_err>>

\* gen = rowify(columns): on the lists of columnarize, or on arrays
TRowify ==
  /\ t_pc \in {"lists", "arrays"}
  /\ t_gen' = rowify(t_columns)
  /\ t_pc' = "iterating"
  /\ UNCHANGED <<t_src, t_instances, t_columns, t_rows, t_err>>

\* next(gen) by the caller, until the generator is exhausted or raises
TNext ==
  /\ t_pc = "iterating"
  /\ LET r == gen_next(t_gen)
     IN /\ t_gen' = r.gen
        /\ t_rows' = t_rows \o r.yielded
        /\ IF r.err.type = "none" THEN UNCHANGED <<t_pc, t_err>>
           ELSE IF r.err.type = "StopIteration"
           THEN t_pc' = "exhausted" /\ UNCHANGED t_err
           ELSE t_pc' = "raised" /\ t_err' = r.err
  /\ UNCHANGED <<t_src, t_instances, t_columns>>

\* a client's data is marked and handed to decode_base64, or rows and an
\* outputs map are handed to encode_base64
CInit ==
  /\ c_pc = "call"
  /\ c_ret = PyNone
  /\ c_err = NoError
  /\ \/ /\ c_fn = "decode"
        /\ c_plain \in Plains
        /\ c_arg = Mark(c_plain)
        /\ c_map = EmptyFn
     \/ /\ c_fn = "encode"
        /\ c_plain = PyNone
        /\ c_map \in OutputMaps
        /\ c_arg \in EncodeInputs(c_map)
  /\ TIdle
  /\ MIdle
  /\ LIdle
  /\ PIdle
  /\ TmIdle
  /\ GIdle

\* instances = decode_base64(instances)
CDecode ==
  /\ c_pc = "call" /\ c_fn = "decode"
  /\ c_ret' = decode_base64(c_arg).value
  /\ c_err' = decode_base64(c_arg).err
  /\ c_pc' = "done"
  /\ UNCHANGED <<c_fn, c_plain, c_arg, c_map>>

\* predictions = encode_base64(predictions, model.signature.outputs)
CEncode ==
  /\ c_pc = "call" /\ c_fn = "encode"
  /\ c_ret' = encode_base64(c_arg, c_map).value
  /\ c_err' = encode_base64(c_arg, c_map).err
  /\ c_pc' = "done"
  /\ UNCHANGED <<c_fn, c_plain, c_arg, c_map>>

\* model = create_model(client, model_dir) with any value of the variable
LInit ==
  /\ l_pc = "load_model_class"
  /\ l_env \in EnvValues
  /\ l_loaded = PyNone
  /\ l_model = PyNone
  /\ l_err = NoError
  /\ TIdle
  /\ MIdle
  /\ CIdle
  /\ PIdle
  /\ TmIdle
  /\ GIdle

\* create_model: the left operand of "or", load_model_class(client, model_path)
LLoadModelClass ==
  /\ l_pc = "load_model_class"
  /\ l_loaded' = load_model_class(l_env).value
  /\ l_err' = load_model_class(l_env).err
  /\ l_pc' = IF load_model_class(l_env).err.type = "none" THEN "or" ELSE "raised"
  /\ UNCHANGED <<l_env, l_model>>

\* create_model: "or" returns the loaded model if there is one, and otherwise
\* DefaultModel.from_client(client, model_path)
LOrDefault ==
  /\ l_pc = "or"
  /\ l_model' = IF Truthy(l_loaded) THEN l_loaded ELSE Instance("DefaultModel")
  /\ l_pc' = "returned"
  /\ UNCHANGED <<l_env, l_loaded, l_err>>

\* ------------------------------------------------------ Timer: caller harness
\* timer = Timer(timer_fn), with a timer function that may return any reading
TmInit ==
  /\ tm_pc = "new"
  /\ tm_start = PyNone
  /\ tm_end = PyNone
  /\ tm_enter = 0
  /\ tm_exit = 0
  /\ tm_read = [prop |-> "none", value |-> 0]
  /\ tm_spans = 0
  /\ TIdle
  /\ MIdle
  /\ CIdle
  /\ LIdle
  /\ PIdle
  /\ GIdle

\* Timer.__enter__ (with timer: ...), on a new Timer or one used before
TmEnter ==
  /\ tm_pc \in {"new", "exited"}
  /\ tm_spans < MaxSpans
  /\ \E r \in 0..MaxReading :
       /\ tm_start' = PyInt(r)
       /\ tm_enter' = r
  /\ tm_end' = PyNone
  /\ tm_pc' = "entered"
  /\ tm_spans' = tm_spans + 1
  /\ tm_read' = [prop |-> "none", value |-> 0]
  /\ UNCHANGED tm_exit

\* Timer.__exit__: the with block is left
TmExit ==
  /\ tm_pc = "entered"
  /\ \E r \in 0..MaxReading :
       /\ tm_end' = PyInt(r)
       /\ tm_exit' = r
  /\ tm_pc' = "exited"
  /\ tm_read' = [prop |-> "none", value |-> 0]
  /\ UNCHANGED <<tm_start, tm_enter, tm_spans>>

\* a read of timer.seconds, timer.milliseconds or timer.microseconds
TmRead ==
  /\ tm_pc \in {"new", "entered", "exited"}
  /\ \E prop \in {"seconds", "milliseconds", "microseconds"}, now \in 0..MaxReading :
       tm_read' = [prop |-> prop, value |-> Timer_property(prop, tm_start, tm_end, now)]
  /\ UNCHANGED <<tm_pc, tm_start, tm_end, tm_enter, tm_exit, tm_spans>>

\* ------------------------------------------------- load_model: caller harness
\* load_model(model_path, signature_name=...) on a directory that is no
\* SavedModel, one with bad model data, or one whose meta graph has any of the
\* three signature keys, each SignatureDef with or without dtype information
GInit ==
  LET SigDef(key, dtype) ==
        [method_name |-> key, inputs |-> ("x" :> TensorInfo("x:0", dtype)),
         outputs |-> ("y" :> TensorInfo("y:0", ""))]
      SigKeys == {"serving_default_from_named", "serving_default", "custom"}
  IN /\ g_pc = "load_model"
     /\ g_path \in {"not_saved_model", "bad_data", "saved_model"}
     /\ g_defs \in UNION {{[k \in S |-> SigDef(k, f[k])] : f \in [S -> {"", "float", "string"}]} :
                          S \in SUBSET SigKeys}
     /\ g_name \in {"serving_default", "custom"}
     /\ g_sig = PyNone
     /\ g_err = NoError
     /\ TIdle
     /\ MIdle
     /\ CIdle
     /\ LIdle
     /\ PIdle
     /\ TmIdle

\* load_model up to the loaded meta graph: the path must be a SavedModel
\* directory, and any exception of Session() or loader.load is replaced
GLoad ==
  /\ g_pc = "load_model"
  /\ IF g_path = "not_saved_model"
     THEN /\ g_pc' = "raised"
          /\ g_err' = PredictionError(FAILED_TO_LOAD_MODEL, <<"Cloud ML only supports TF 1.0 or above and models saved in SavedModel format.">>)
     ELSE IF g_path = "bad_data"
     THEN /\ g_pc' = "raised"
          /\ g_err' = PredictionError(FAILED_TO_LOAD_MODEL, <<"Failed to load the model due to bad model data.">>)
     ELSE /\ g_pc' = "get_signature"
          /\ g_err' = g_err
  /\ UNCHANGED <<g_path, g_defs, g_name, g_sig>>

\* signature = _get_signature_from_meta_graph(...); return session, signature
GGetSignature ==
  /\ g_pc = "get_signature"
  /\ LET r == get_signature_from_meta_graph(g_defs, g_name)
     IN /\ g_sig' = r.value
        /\ g_err' = r.err
        /\ g_pc' = IF r.err.type = "none" THEN "returned" ELSE "raised"
  /\ UNCHANGED <<g_path, g_defs, g_name>>

\* ------------------------------------------------------- concurrent calls
\* The frame of a call of DefaultModel.predict: its arguments, its locals and
\* what its caller holds.  The model, the client and the Signature (sig) are
\* shared by the calls and belong to no frame.
Frame ==
  [instances |-> instances, callerStats |-> callerStats, shared |-> shared, stats |-> stats,
   pc |-> pc, preprocessed |-> preprocessed, columns |-> columns, unaliased |-> unaliased,
   fetched |-> fetched, outputs |-> outputs, gen |-> gen, inputs |-> inputs, rows |-> rows,
   raised |-> raised, err |-> err, log |-> log]

\* the frame of a call that has not started
NewFrame(insts, stats_arg) ==
  [instances |-> insts, callerStats |-> stats_arg, shared |-> FALSE, stats |-> EmptyStats,
   pc |-> "preprocess", preprocessed |-> PyNone, columns |-> EmptyFn, unaliased |-> EmptyFn,
   fetched |-> <<>>, outputs |-> EmptyFn, gen |-> NoGen, inputs |-> PyNone, rows |-> <<>>,
   raised |-> NoError, err |-> NoError, log |-> <<>>]

\* two calls on one model: each with its own instances and its own stats
ConcurrentInit ==
  LET Payloads2 == {PyList(<<PyInt(1)>>), PyList(<<PyDict("a" :> PyInt(1) @@ "b" :> PyInt(2))>>)}
      Stats2 == {[given |-> FALSE, d |-> EmptyStats], [given |-> TRUE, d |-> ("count" :> "1")]}
  IN /\ sig \in Signatures
     /\ cur = 1
     /\ instances \in Payloads2
     /\ callerStats \in Stats2
     /\ shared = FALSE
     /\ stats = EmptyStats
     /\ pc = "preprocess"
     /\ preprocessed = PyNone
     /\ columns = EmptyFn
     /\ unaliased = EmptyFn
     /\ fetched = <<>>
     /\ outputs = EmptyFn
     /\ gen = NoGen
     /\ inputs = PyNone
     /\ rows = <<>>
     /\ raised = NoError
     /\ err = NoError
     /\ log = <<>>
     /\ parked \in {NewFrame(i, s) : i \in Payloads2, s \in Stats2}
     /\ TIdle
     /\ CIdle
     /\ LIdle
     /\ TmIdle
     /\ GIdle

\* The thread of the other call is scheduled: the running call is suspended
\* between two of its statements and the other call goes on where it was.
Switch ==
  /\ parked.pc \notin {"consumed", "raised"}
  /\ cur' = 3 - cur
  /\ parked' = Frame
  /\ instances' = parked.instances
  /\ callerStats' = parked.callerStats
  /\ shared' = parked.shared
  /\ stats' = parked.stats
  /\ pc' = parked.pc
  /\ preprocessed' = parked.preprocessed
  /\ columns' = parked.columns
  /\ unaliased' = parked.unaliased
  /\ fetched' = parked.fetched
  /\ outputs' = parked.outputs
  /\ gen' = parked.gen
  /\ inputs' = parked.inputs
  /\ rows' = parked.rows
  /\ raised' = parked.raised
  /\ err' = parked.err
  /\ log' = parked.log
  /\ UNCHANGED sig

\* ------------------------------------------------------------ specifications
Init ==
  /\ sig \in Signatures
  /\ instances \in Payloads
  /\ callerStats \in StatsArgs
  /\ shared = FALSE
  /\ stats = EmptyStats
  /\ pc = "preprocess"
  /\ preprocessed = PyNone
  /\ columns = EmptyFn
  /\ unaliased = EmptyFn
  /\ fetched = <<>>
  /\ outputs = EmptyFn
  /\ gen = NoGen
  /\ inputs = PyNone
  /\ rows = <<>>
  /\ raised = NoError
  /\ err = NoError
  /\ log = <<>>
  /\ TIdle
  /\ CIdle
  /\ LIdle
  /\ PIdle
  /\ TmIdle
  /\ GIdle

Next ==
  \/ Preprocess /\ UNCHANGED <<t_vars, c_vars, l_vars, p_vars, tm_vars, g_vars>>
  \/ Columnarize /\ UNCHANGED <<t_vars, c_vars, l_vars, p_vars, tm_vars, g_vars>>
  \/ Unalias /\ UNCHANGED <<t_vars, c_vars, l_vars, p_vars, tm_vars, g_vars>>
  \/ SessionRun /\ UNCHANGED <<t_vars, c_vars, l_vars, p_vars, tm_vars, g_vars>>
  \/ Alias /\ UNCHANGED <<t_vars, c_vars, l_vars, p_vars, tm_vars, g_vars>>
  \/ Rowify /\ UNCHANGED <<t_vars, c_vars, l_vars, p_vars, tm_vars, g_vars>>
  \/ InputProcessing /\ UNCHANGED <<t_vars, c_vars, l_vars, p_vars, tm_vars, g_vars>>
  \/ Consume /\ UNCHANGED <<t_vars, c_vars, l_vars, p_vars, tm_vars, g_vars>>

Spec == Init /\ [][Next]_vars

\* The call runs in one thread, statement after statement, and session.run
\* returns or raises: a statement that can be run is run.
SpecLive == Init /\ [][Next]_vars /\ WF_vars(Next)

TNext_ ==
  \/ TColumnarize /\ UNCHANGED <<m_vars, c_vars, l_vars, p_vars, tm_vars, g_vars>>
  \/ TAsArrays /\ UNCHANGED <<m_vars, c_vars, l_vars, p_vars, tm_vars, g_vars>>
  \/ TRowify /\ UNCHANGED <<m_vars, c_vars, l_vars, p_vars, tm_vars, g_vars>>
  \/ TNext /\ UNCHANGED <<m_vars, c_vars, l_vars, p_vars, tm_vars, g_vars>>

SpecTranscode == TInit /\ [][TNext_]_vars

CNext ==
  \/ CDecode /\ UNCHANGED <<t_vars, m_vars, l_vars, p_vars, tm_vars, g_vars>>
  \/ CEncode /\ UNCHANGED <<t_vars, m_vars, l_vars, p_vars, tm_vars, g_vars>>

SpecCodec == CInit /\ [][CNext]_vars

LNext ==
  \/ LLoadModelClass /\ UNCHANGED <<t_vars, m_vars, c_vars, p_vars, tm_vars, g_vars>>
  \/ LOrDefault /\ UNCHANGED <<t_vars, m_vars, c_vars, p_vars, tm_vars, g_vars>>

SpecLoad == LInit /\ [][LNext]_vars

ConcurrentNext ==
  \/ Next
  \/ Switch /\ UNCHANGED <<t_vars, c_vars, l_vars, tm_vars, g_vars>>

SpecConcurrent == ConcurrentInit /\ [][ConcurrentNext]_vars

TmNext ==
  \/ TmEnter /\ UNCHANGED <<t_vars, m_vars, c_vars, l_vars, p_vars, g_vars>>
  \/ TmExit /\ UNCHANGED <<t_vars, m_vars, c_vars, l_vars, p_vars, g_vars>>
  \/ TmRead /\ UNCHANGED <<t_vars, m_vars, c_vars, l_vars, p_vars, g_vars>>

SpecTimer == TmInit /\ [][TmNext]_vars

GNext ==
  \/ GLoad /\ UNCHANGED <<t_vars, m_vars, c_vars, l_vars, p_vars, tm_vars>>
  \/ GGetSignature /\ UNCHANGED <<t_vars, m_vars, c_vars, l_vars, p_vars, tm_vars>>

SpecSignature == GInit /\ [][GNext]_vars

\* =================================================================== claims
\* ---- helpers of the claims
ConsistentFields(insts) ==
  \A i, j \in 1..Len(insts) : DOMAIN insts[i].v = DOMAIN insts[j].v

ColumnsAreArrays(cols) == \A k \in DOMAIN cols : HasShape(cols[k])

HasOuter(cols) == \A k \in DOMAIN cols : HasShape(cols[k]) /\ cols[k].v.shape # <<>>
OuterLengths(cols) == {Head(cols[k].v.shape) : k \in DOMAIN cols}

InLog(what, name) == \E i \in 1..Len(log) : log[i] = <<what, name>>

\* C1 (as stated): for every list of mapping instances with the same field
\* names, iterating rowify over the columns of columnarize (held as arrays)
\* ends normally and yields exactly the instances, in order.
C1_RoundTrip_AsStated ==
  (t_src = "instances" /\ t_pc \in {"exhausted", "raised"}
     /\ ColumnsAreArrays(t_columns) /\ ConsistentFields(t_instances))
  => (t_pc = "exhausted" /\ t_rows = t_instances)

\* C1 (amended): for every non-empty list of mapping instances that share one
\* non-empty set of field names, rowify over the columns of columnarize held as
\* arrays yields the instances one by one in order (every row yielded so far is
\* the instance at its index) and ends normally after the last one.
C1_RoundTrip ==
  (t_src = "instances" /\ t_instances # <<>> /\ ConsistentFields(t_instances)
     /\ t_pc \in {"iterating", "exhausted", "raised"} /\ t_gen.state # "created"
     /\ ColumnsAreArrays(t_columns) /\ DOMAIN t_columns # {})
  => /\ t_pc # "raised"
     /\ Len(t_rows) <= Len(t_instances)
     /\ t_rows = SubSeq(t_instances, 1, Len(t_rows))
     /\ t_pc = "exhausted" => t_rows = t_instances

C1_Witness ==
  /\ t_src = "instances" /\ t_pc = "exhausted"
  /\ Len(t_instances) = 2
  /\ ConsistentFields(t_instances)
  /\ DOMAIN t_instances[1].v = {"a", "b"}
  /\ t_instances[1].v["a"].t = "list" /\ t_instances[2].v["a"].t = "list"
  /\ t_instances[1] # t_instances[2]
  /\ t_rows = t_instances

\* C8: once the body of rowify has run on a batch of arrays of which two have
\* different outer lengths, the caller has an INVALID_OUTPUTS PredictionError,
\* has received no row, and the detail maps every field to its outer length.
C8_RowifyDifferingSizes ==
  (t_gen.state \notin {"none", "created"} /\ HasOuter(t_gen.columns)
     /\ Cardinality(OuterLengths(t_gen.columns)) > 1)
  => /\ t_pc = "raised"
     /\ t_err.type = "PredictionError" /\ t_err.kind = INVALID_OUTPUTS
     /\ t_rows = <<>>
     /\ DOMAIN t_err.detail[2] = DOMAIN t_gen.columns
     /\ \A k \in DOMAIN t_gen.columns : t_err.detail[2][k] = Head(t_gen.columns[k].v.shape)

C8_Witness ==
  /\ t_pc = "raised" /\ t_err.kind = INVALID_OUTPUTS
  /\ HasOuter(t_gen.columns)
  /\ OuterLengths(t_gen.columns) = {1, 2}
  /\ \E k \in DOMAIN t_gen.columns : Len(t_gen.columns[k].v.shape) = 2

\* C2: once the Columnarize phase has produced a column with fewer entries than
\* there are instances, the call has failed with INVALID_INPUTS, the detail names
\* a field whose column is short, and neither client.predict (the engine run
\* phase, the engine itself) nor rowify has been invoked.
C2_ShortColumnFails ==
  (InLog("enter", COLUMNARIZE_TIME)
     /\ \E k \in DOMAIN columns : columns[k].t = "list" /\ Len(columns[k].v) < PyLen(preprocessed))
  => /\ pc = "raised"
     /\ err.type = "PredictionError" /\ err.kind = INVALID_INPUTS
     /\ err.detail[2] \in {k \in DOMAIN columns : Len(columns[k].v) < PyLen(preprocessed)}
     /\ ~InLog("enter", ENGINE_RUN_TIME)
     /\ ~InLog("run", "engine")
     /\ ~InLog("enter", ROWIFY_TIME)
     /\ gen = NoGen

C2_Witness ==
  /\ pc = "raised" /\ err.kind = INVALID_INPUTS
  /\ InLog("raise", COLUMNARIZE_TIME)
  /\ Cardinality({k \in DOMAIN columns : Len(columns[k].v) < PyLen(preprocessed)}) = 2
  /\ err.detail[2] = "b"

\* C3: once a PredictionError has been raised in a phase of the call, the call
\* has ended with exactly that error at the caller, and nothing is entered after
\* the failing statement: the log holds only the unwinding after it.
C3_ErrorShortCircuits ==
  (raised.type = "PredictionError" /\ ~InLog("raise", "consume"))
  => /\ pc = "raised"
     /\ err = raised
     /\ \A i, j \in 1..Len(log) : (i < j /\ log[i][1] = "raise") => log[j][1] = "raise"
     /\ \E i \in 1..Len(log) : log[i][1] = "raise"

C3_Witness ==
  /\ pc = "raised" /\ raised.type = "PredictionError" /\ raised.kind = FAILED_TO_RUN_GRAPH
  /\ err = raised
  /\ log[Len(log)] = <<"raise", ENGINE_RUN_TIME>>

\* ---- C4
TopPhases == <<PREPROCESS_TIME, COLUMNARIZE_TIME, ENGINE_RUN_TIME, ROWIFY_TIME,
               INPUT_PROCESSING_TIME>>
IsTopEnter(e) == e[1] = "enter" /\ \E i \in 1..Len(TopPhases) : TopPhases[i] = e[2]
TopEnters == SelectSeq(log, IsTopEnter)
IndexInLog(what, name) == CHOOSE i \in 1..Len(log) : log[i] = <<what, name>>

\* C4: the phases entered so far are a prefix of Preprocess, Columnarize,
\* Predict, Rowify, Input reflection (so none is entered twice or out of order),
\* and each phase is entered only after the previous one has been left normally.
C4_PhaseOrder ==
  /\ Len(TopEnters) <= Len(TopPhases)
  /\ \A i \in 1..Len(TopEnters) : TopEnters[i] = <<"enter", TopPhases[i]>>
  /\ \A i \in 2..Len(TopEnters) :
       /\ InLog("exit", TopPhases[i - 1])
       /\ IndexInLog("exit", TopPhases[i - 1]) < IndexInLog("enter", TopPhases[i])
       /\ IndexInLog("enter", TopPhases[i - 1]) < IndexInLog("exit", TopPhases[i - 1])

C4_Witness ==
  /\ pc = "returned"
  /\ Len(TopEnters) = 5
  /\ InLog("exit", INPUT_PROCESSING_TIME)

\* the engine gave every output one entry per instance it was fed
EngineWellBehaved ==
  /\ fetched # <<>>
  /\ \A i \in 1..Len(fetched) : HasShape(fetched[i]) /\ fetched[i].v.shape = <<PyLen(preprocessed)>>

\* C5 (as stated): when the call has returned and the caller has taken all the
\* outputs of an engine that gave one entry per instance, inputs and outputs
\* have the same length.
C5_SameLength_AsStated ==
  (pc = "consumed" /\ EngineWellBehaved) => Len(inputs.v) = Len(rows)

\* C6 (as stated): whatever failure the caller of local_predict (stats=None)
\* observes is a PredictionError of one of the five kinds.
C6_OnlyPredictionErrors_AsStated ==
  (pc = "raised" /\ ~callerStats.given)
  => (err.type = "PredictionError" /\ err.kind \in ErrorKinds)

\* C7 (as stated): DefaultModel.predict never returns a pair when the client's
\* batch has fields of differing outer lengths.
C7_NoReturnOnDifferingSizes_AsStated ==
  (InLog("exit", ALIAS_TIME) /\ HasOuter(outputs) /\ Cardinality(OuterLengths(outputs)) > 1)
  => pc \notin {"returned", "consumed"}

\* C9: once the engine run has raised (message m), the call has failed with
\* FAILED_TO_RUN_GRAPH whose detail holds m, the alias step was not entered and
\* no output batch exists.
C9_EngineFailureWrapped ==
  \A m \in EngineMessages :
    InLog("engine_raised", m)
    => /\ pc = "raised"
       /\ err.type = "PredictionError" /\ err.kind = FAILED_TO_RUN_GRAPH
       /\ err.detail[2] = m
       /\ ~InLog("enter", ALIAS_TIME)
       /\ outputs = EmptyFn /\ fetched = <<>>

C9_Witness ==
  /\ pc = "raised" /\ InLog("engine_raised", "missing op")
  /\ err.kind = FAILED_TO_RUN_GRAPH
  /\ InLog("exit", UNALIAS_TIME)

\* C10: once the alias translation has been entered with a batch holding an
\* alias that is no declared input, the call has failed with INVALID_INPUTS and
\* the engine has not been invoked.
C10_UnknownAliasFails ==
  (InLog("enter", UNALIAS_TIME) /\ \E k \in DOMAIN columns : k \notin DOMAIN sig.inputs)
  => /\ pc = "raised"
     /\ err.type = "PredictionError" /\ err.kind = INVALID_INPUTS
     /\ ~InLog("run", "engine")
     /\ ~InLog("enter", SESSION_RUN_TIME)
     /\ fetched = <<>>

C10_Witness ==
  /\ pc = "raised" /\ InLog("raise", UNALIAS_TIME)
  /\ "z" \in DOMAIN columns
  /\ err.kind = INVALID_INPUTS /\ err.detail[2] = "z"

\* ---- C11, C12
SingleInput == Cardinality(DOMAIN sig.inputs) = 1
TheAlias == CHOOSE k \in DOMAIN sig.inputs : TRUE
AsList(x) == IF x.t = "list" THEN x.v ELSE <<x>>

\* C11 (as stated): when the call has returned, a model with one declared input
\* echoes {alias: instance} for every instance of the list it was given, and a
\* model with more than one declared input echoes the instances unchanged.
C11_InputReflection_AsStated ==
  (pc \in {"returned", "consumed"})
  => IF SingleInput
     THEN instances.t = "list"
          => inputs = PyList([i \in 1..Len(instances.v) |-> PyDict(TheAlias :> instances.v[i])])
     ELSE inputs = instances

\* C12: once the Preprocess phase has run, for a model with more than one input
\* the result is the instances argument itself; for a model with the single
\* input alias t the phase has failed with INVALID_INPUTS if some instance is a
\* mapping whose key set is not exactly {t}, and otherwise the result holds, for
\* every instance in order, v for the instance {t: v} and v for the bare v.
C12_MaybePreprocess ==
  (pc # "preprocess")
  => IF ~SingleInput
     THEN preprocessed = instances /\ ~InLog("raise", PREPROCESS_TIME)
     ELSE IF \E i \in 1..Len(AsList(instances)) :
               AsList(instances)[i].t = "dict" /\ DOMAIN AsList(instances)[i].v # {TheAlias}
     THEN /\ pc = "raised" /\ InLog("raise", PREPROCESS_TIME)
          /\ err.type = "PredictionError" /\ err.kind = INVALID_INPUTS
          /\ preprocessed = PyNone
     ELSE /\ ~InLog("raise", PREPROCESS_TIME)
          /\ preprocessed = PyList([i \in 1..Len(AsList(instances)) |->
                                     IF AsList(instances)[i].t = "dict"
                                     THEN AsList(instances)[i].v[TheAlias]
                                     ELSE AsList(instances)[i]])

C12_Witness ==
  /\ SingleInput /\ pc = "columnarize"
  /\ instances = PyList(<<PyDict("t" :> PyInt(1)), PyInt(1)>>)
  /\ preprocessed = PyList(<<PyInt(1), PyInt(1)>>)

\* ---- C13
\* C13 (as stated): a call of encode_base64 whose instances are no list, or
\* whose first instance is no mapping while the outputs map declares more than
\* one field, has raised ValueError and returned no value.
C13_EncodeUsageErrors_AsStated ==
  (c_fn = "encode" /\ c_pc = "done"
     /\ \/ c_arg.t # "list"
        \/ /\ c_arg.t = "list" /\ c_arg.v # <<>> /\ c_arg.v[1].t # "dict"
           /\ Cardinality(DOMAIN c_map) > 1)
  => (c_err.type = "ValueError" /\ c_ret = PyNone)

\* ---- C14
RECURSIVE HasBytes(_)
HasBytes(x) ==
  IF x.t = "bytes" THEN TRUE
  ELSE IF x.t = "list" THEN \E i \in 1..Len(x.v) : HasBytes(x.v[i])
  ELSE IF x.t = "dict" THEN \E k \in DOMAIN x.v : HasBytes(x.v[k])
  ELSE FALSE

\* some mapping of x has "b64" as its only key
RECURSIVE HasB64Mapping(_)
HasB64Mapping(x) ==
  IF x.t = "list" THEN \E i \in 1..Len(x.v) : HasB64Mapping(x.v[i])
  ELSE IF x.t = "dict"
  THEN DOMAIN x.v = {"b64"} \/ \E k \in DOMAIN x.v : HasB64Mapping(x.v[k])
  ELSE FALSE

\* C14 (as stated): decode_base64 of data in which every byte string x, at any
\* depth inside lists and mappings, stands as {"b64": base64(x)} returns the
\* data with exactly the bytes x in the place of every marker.
C14_DecodeRecovers_AsStated ==
  (c_fn = "decode" /\ c_pc = "done" /\ HasBytes(c_plain))
  => (c_err.type = "none" /\ c_ret = c_plain)

\* C14 (amended): the same, for data none of whose own mappings has "b64" as its
\* only key (such a mapping is itself taken for a marker).
C14_DecodeRecovers ==
  (c_fn = "decode" /\ c_pc = "done" /\ HasBytes(c_plain) /\ ~HasB64Mapping(c_plain))
  => (c_err.type = "none" /\ c_ret = c_plain)

C14_Witness ==
  /\ c_fn = "decode" /\ c_pc = "done"
  /\ c_plain = PyDict("a" :> PyList(<<PyBytes(<<255, 0, 77>>), PyInt(1)>>))
  /\ c_arg = PyDict("a" :> PyList(<<PyDict("b64" :> PyBytes(<<47, 119, 66, 78>>)), PyInt(1)>>))
  /\ c_ret = c_plain

\* ---- C15
\* the field is declared a string and its name ends with "_bytes"
C15_IsBinaryField(k) == c_map[k].dtype = "string" /\ k \in {"img_bytes", "f_bytes"}

\* res has the shape of orig, with {"b64": base64(leaf)} for every leaf
RECURSIVE C15_Wrapped(_, _)
C15_Wrapped(orig, res) ==
  IF orig.t = "list"
  THEN /\ res.t = "list" /\ Len(res.v) = Len(orig.v)
       /\ \A i \in 1..Len(orig.v) : C15_Wrapped(orig.v[i], res.v[i])
  ELSE /\ res.t = "dict" /\ DOMAIN res.v = {"b64"}
       /\ res.v["b64"] = PyBytes(b2a_base64(orig.v))

RECURSIVE AllLeavesBytes(_)
AllLeavesBytes(x) ==
  IF x.t = "list" THEN \A i \in 1..Len(x.v) : AllLeavesBytes(x.v[i]) ELSE x.t = "bytes"

\* the instances are rows holding exactly the declared fields
C15_RowsCase ==
  /\ c_arg.t = "list" /\ c_arg.v # <<>>
  /\ \A i \in 1..Len(c_arg.v) : c_arg.v[i].t = "dict" /\ DOMAIN c_arg.v[i].v = DOMAIN c_map

\* the instances are bare values of the only declared field
C15_BareCase ==
  /\ c_arg.t = "list" /\ c_arg.v # <<>>
  /\ \A i \in 1..Len(c_arg.v) : c_arg.v[i].t # "dict"
  /\ Cardinality(DOMAIN c_map) = 1
  /\ \A k \in DOMAIN c_map : c_map[k].dtype = "string" => AllLeavesBytes(c_arg)

\* C15: encode_base64 returns, for rows of the declared fields, rows in which a
\* field's value has every leaf wrapped as {"b64": base64(leaf)}, nested lists
\* keeping their shape, if and only if the field is declared a string and its
\* name ends with "_bytes", and is the given value for every other field; the
\* same holds for bare values of a model with one declared field.
C15_EncodeByField ==
  /\ (c_fn = "encode" /\ c_pc = "done" /\ C15_RowsCase)
     => /\ c_err.type = "none"
        /\ c_ret.t = "list" /\ Len(c_ret.v) = Len(c_arg.v)
        /\ \A i \in 1..Len(c_arg.v) :
             /\ c_ret.v[i].t = "dict" /\ DOMAIN c_ret.v[i].v = DOMAIN c_map
             /\ \A k \in DOMAIN c_map :
                  IF C15_IsBinaryField(k)
                  THEN C15_Wrapped(c_arg.v[i].v[k], c_ret.v[i].v[k])
                  ELSE c_ret.v[i].v[k] = c_arg.v[i].v[k]
  /\ (c_fn = "encode" /\ c_pc = "done" /\ C15_BareCase)
     => /\ c_err.type = "none"
        /\ \A k \in DOMAIN c_map :
             IF C15_IsBinaryField(k) THEN C15_Wrapped(c_arg, c_ret) ELSE c_ret = c_arg

C15_Witness ==
  /\ c_fn = "encode" /\ c_pc = "done" /\ C15_RowsCase
  /\ DOMAIN c_map = {"img_bytes", "xbytes"}
  /\ Len(c_arg.v) = 2
  /\ c_arg.v[1].v["img_bytes"].t = "list"
  /\ c_ret.v[1].v["img_bytes"] =
       PyList(<<PyDict("b64" :> PyBytes(<<84, 81, 61, 61>>)),
                PyList(<<PyDict("b64" :> PyBytes(<<>>))>>)>>)
  /\ c_ret.v[2].v["xbytes"] = PyBytes(<<0, 255, 77>>)

\* ---- C16, C17, C18
\* the document, the version entry and the model_class name of the configuration
TheDocument == l_env.v
HasVersion ==
  l_env.t = "json" /\ TheDocument.t = "dict" /\ "version" \in DOMAIN TheDocument.v
  /\ TheDocument.v["version"].t = "dict"
TheVersion == TheDocument.v["version"]
HasModelClass ==
  HasVersion /\ "model_class" \in DOMAIN TheVersion.v
  /\ TheVersion.v["model_class"].t = "str" /\ TheVersion.v["model_class"].v # ""
TheModelClass == TheVersion.v["model_class"].v

\* no create_version_request value, an empty document, no version entry, or no
\* model_class name
ConfigurationAbsent ==
  \/ l_env.t = "NoneType"
  \/ l_env.t = "json" /\ TheDocument.t = "dict" /\ DOMAIN TheDocument.v = {}
  \/ l_env.t = "json" /\ TheDocument.t = "dict" /\ "version" \notin DOMAIN TheDocument.v
  \/ HasVersion /\ "model_class" \notin DOMAIN TheVersion.v

\* C16: when the custom-model configuration is absent at some step,
\* load_model_class raises nothing and returns no model, and create_model
\* returns the default wrapper.
C16_AbsentFallsBack ==
  (ConfigurationAbsent /\ l_pc # "load_model_class")
  => /\ l_pc # "raised" /\ l_err.type = "none"
     /\ l_loaded = PyNone
     /\ l_pc = "returned" => l_model = Instance("DefaultModel")

C16_Witness ==
  /\ l_pc = "returned" /\ l_model = Instance("DefaultModel")
  /\ HasVersion /\ DOMAIN TheVersion.v = {"package_uris"}
  /\ DOMAIN TheDocument.v = {"version", "name"}

\* C17 (as stated): when a model_class name is configured that resolves to no
\* type, load_model_class has failed with INVALID_USER_CODE, the detail holds
\* the package locations the document configures, and no model was returned,
\* whether or not the document has a package_uris entry.
C17_UnresolvedFails_AsStated ==
  (HasModelClass /\ TheModelClass \notin DOMAIN UserCode /\ l_pc # "load_model_class")
  => /\ l_pc = "raised"
     /\ l_err.type = "PredictionError" /\ l_err.kind = INVALID_USER_CODE
     /\ l_loaded = PyNone /\ l_model = PyNone
     /\ "package_uris" \in DOMAIN TheVersion.v
        => l_err.detail[3] = [i \in 1..Len(TheVersion.v["package_uris"].v) |->
                                TheVersion.v["package_uris"].v[i].v]

\* the class the configured name resolves to
ResolvesToClass ==
  HasModelClass /\ TheModelClass \in DOMAIN UserCode /\ UserCode[TheModelClass].t = "class"
TheClass == UserCode[TheModelClass].v

\* C18: when the configured name resolves to a class, load_model_class returns
\* its instance only if the class has a predict method, a signature and as many
\* predict parameters as Model.predict; a missing predict, a missing signature
\* and a differing parameter count each fail with INVALID_USER_CODE, the last
\* one with the expected and the actual parameters in the detail.
C18_ValidatesModelClass ==
  (ResolvesToClass /\ l_pc # "load_model_class")
  => /\ l_loaded # PyNone
        => /\ TheClass.predict = "method" /\ TheClass.signature
           /\ Len(TheClass.args) = Len(Model_predict_args)
           /\ l_loaded = Instance(TheModelClass) /\ l_err.type = "none"
     /\ (TheClass.predict = "none" \/ ~TheClass.signature
         \/ (TheClass.predict = "method" /\ Len(TheClass.args) # Len(Model_predict_args)))
        => /\ l_pc = "raised" /\ l_loaded = PyNone
           /\ l_err.type = "PredictionError" /\ l_err.kind = INVALID_USER_CODE
     /\ (TheClass.predict = "method" /\ TheClass.signature
         /\ Len(TheClass.args) # Len(Model_predict_args))
        => /\ l_err.detail[3] = Model_predict_args
           /\ l_err.detail[4] = TheClass.args

C18_Witness ==
  /\ ResolvesToClass /\ TheModelClass = "pkg.OneFewer"
  /\ l_pc = "raised" /\ l_err.kind = INVALID_USER_CODE
  /\ l_err.detail[4] = <<"self", "instances">>

\* ---- C19
StatsKeys == {PREPROCESS_TIME, COLUMNARIZE_TIME, UNALIAS_TIME, SESSION_RUN_TIME, ALIAS_TIME,
              ENGINE_RUN_TIME, ROWIFY_TIME, INPUT_PROCESSING_TIME, ENGINE}

\* C19 (as stated): once DefaultModel.predict has returned, the Stats object
\* the caller passed in, empty or not, holds the entry of every phase and the
\* engine name.
C19_CallerStatsComplete_AsStated ==
  (pc \in {"returned", "consumed"} /\ callerStats.given) => StatsKeys \subseteq DOMAIN callerStats.d

\* ---- C20
\* what a call that has returned holds is a function of the Signature, of its
\* own instances and of what the engine gave this very call
OwnResults(f) ==
  (f.pc \in {"returned", "consumed"})
  => /\ f.preprocessed = maybe_preprocess(sig, f.instances).value
     /\ f.outputs = Zip(keys(sig.outputs), f.fetched)
     /\ f.gen.columns = [k \in DOMAIN f.outputs |-> listify(f.outputs[k])]
     /\ \A i \in 1..Len(f.rows) : f.rows[i] = rowify_row(f.gen.columns, i)
     /\ f.inputs = reflect_inputs(sig, f.instances)
     /\ StatsKeys \subseteq DOMAIN f.stats
     /\ f.callerStats.given => f.callerStats.d = f.stats

\* C20: in every interleaving of the statements of two calls on one model no
\* statement changes the Signature, a statement of one call changes nothing of
\* the other call, and what a returned call holds is determined by the
\* Signature, its own instances and its own engine result.
C20_CallsIndependent ==
  /\ [](OwnResults(Frame) /\ OwnResults(parked))
  /\ [][sig' = sig /\ (cur' = cur => parked' = parked)]_vars

C20_Witness ==
  /\ cur = 1 /\ sig = SigMulti
  /\ pc = "session_run" /\ parked.pc = "alias"
  /\ instances = parked.instances
  /\ callerStats # parked.callerStats

\* C21: whenever DefaultModel.predict has invoked client.predict (the engine run
\* phase is entered), every field of the batch it passes has a column that is a
\* list with exactly as many entries as the call has instances.
C21_BatchInvariant ==
  InLog("enter", ENGINE_RUN_TIME)
  => \A k \in DOMAIN columns :
       /\ columns[k].t = "list"
       /\ Len(columns[k].v) = Len(AsList(instances))
       /\ Len(columns[k].v) = PyLen(preprocessed)

C21_Witness ==
  /\ InLog("enter", ENGINE_RUN_TIME)
  /\ ~SingleInput
  /\ DOMAIN columns = {"a", "b"}
  /\ Len(AsList(instances)) = 2
  /\ \A k \in DOMAIN columns : Len(columns[k].v) = 2

\* C22: the Rowify phase hands rowify, for every output of the engine, a value
\* with one outer dimension of exactly one element if the output has no shape
\* or the empty shape, and the output itself if its shape is not empty; when no
\* output has a non-empty shape the caller gets exactly one output row.
C22_Scalar(x) == ~HasShape(x) \/ x.v.shape = <<>>

C22_Listify ==
  /\ InLog("enter", ROWIFY_TIME)
     => /\ DOMAIN gen.columns = DOMAIN outputs
        /\ \A k \in DOMAIN outputs :
             IF ~HasShape(outputs[k]) THEN gen.columns[k] = NdArray(<<1>>, <<outputs[k]>>)
             ELSE IF outputs[k].v.shape = <<>>
             THEN gen.columns[k] = NdArray(<<1>>, outputs[k].v.flat)
             ELSE gen.columns[k] = outputs[k]
  /\ (InLog("enter", ROWIFY_TIME) /\ \A k \in DOMAIN outputs : C22_Scalar(outputs[k]))
     => /\ gen.state # "raised"
        /\ pc = "consumed" => Len(rows) = 1

C22_Witness ==
  /\ pc = "consumed" /\ Len(rows) = 1
  /\ DOMAIN outputs = {"p", "q"}
  /\ ~HasShape(outputs["p"])
  /\ HasShape(outputs["q"]) /\ outputs["q"].v.shape = <<>>

\* element i (1-based) of a column of one or two dimensions, as a plain value
C23_Element(col, i) ==
  IF Len(col.v.shape) = 1 THEN col.v.flat[i]
  ELSE PyList([j \in 1..col.v.shape[2] |-> col.v.flat[(i - 1) * col.v.shape[2] + j]])

\* C23: for every batch of arrays with at least one field whose fields all have
\* the same outer length n, iterating rowify never fails, the rows yielded so
\* far are rows 1..Len in index order, each row maps exactly the field names of
\* the batch to the element at its index of each column, and the iteration ends
\* after exactly n rows.
C23_RowifyRows ==
  (t_gen.state \notin {"none", "created"} /\ HasOuter(t_gen.columns)
     /\ Cardinality(OuterLengths(t_gen.columns)) = 1)
  => LET n == CHOOSE m \in OuterLengths(t_gen.columns) : TRUE
     IN /\ t_pc # "raised"
        /\ Len(t_rows) <= n
        /\ t_pc = "exhausted" => Len(t_rows) = n
        /\ \A i \in 1..Len(t_rows) :
             /\ t_rows[i].t = "dict"
             /\ DOMAIN t_rows[i].v = DOMAIN t_gen.columns
             /\ \A k \in DOMAIN t_gen.columns :
                  t_rows[i].v[k] = C23_Element(t_gen.columns[k], i)

C23_Witness ==
  /\ t_src = "batch" /\ t_pc = "exhausted"
  /\ DOMAIN t_gen.columns = {"a", "b"}
  /\ t_gen.columns["a"].v.shape = <<2>>
  /\ t_gen.columns["b"].v.shape = <<2, 2>>
  /\ Len(t_rows) = 2
  /\ t_rows[2].v["a"] = PyInt(2)
  /\ t_rows[2].v["b"] = PyList(<<PyInt(3), PyInt(4)>>)

\* the values of field k in the instances that have it, in instance order
RECURSIVE C24_Values(_, _)
C24_Values(insts, k) ==
  IF insts = <<>> THEN <<>>
  ELSE (IF k \in DOMAIN Head(insts).v THEN <<Head(insts).v[k]>> ELSE <<>>)
       \o C24_Values(Tail(insts), k)

\* C24: for every list of mapping instances, the batch columnarize returns has
\* as its fields the union of the field names of the instances, and the column
\* of each field is the list of the values of that field in the instances that
\* contain it, in instance order.
C24_Columnarize ==
  (t_src = "instances" /\ t_pc = "lists")
  => /\ DOMAIN t_columns = UNION {DOMAIN t_instances[i].v : i \in 1..Len(t_instances)}
     /\ \A k \in DOMAIN t_columns : t_columns[k] = PyList(C24_Values(t_instances, k))

C24_Witness ==
  /\ t_src = "instances" /\ t_pc = "lists"
  /\ Len(t_instances) = 2
  /\ DOMAIN t_instances[1].v = {"a"}
  /\ DOMAIN t_instances[2].v = {"a", "b"}
  /\ t_instances[1].v["a"] # t_instances[2].v["a"]
  /\ DOMAIN t_columns = {"a", "b"}
  /\ Len(t_columns["a"].v) = 2 /\ Len(t_columns["b"].v) = 1

\* y is x but for the mappings of x whose key set is exactly {"b64"}: a list
\* keeps its length and order, a mapping its keys, a scalar is the same value
RECURSIVE C25_Unchanged(_, _)
C25_Unchanged(x, y) ==
  IF x.t = "dict" /\ DOMAIN x.v = {"b64"} THEN TRUE
  ELSE IF x.t = "list"
  THEN /\ y.t = "list" /\ Len(y.v) = Len(x.v)
       /\ \A i \in 1..Len(x.v) : C25_Unchanged(x.v[i], y.v[i])
  ELSE IF x.t = "dict"
  THEN /\ y.t = "dict" /\ DOMAIN y.v = DOMAIN x.v
       /\ \A k \in DOMAIN x.v : C25_Unchanged(x.v[k], y.v[k])
  ELSE y.t = x.t /\ y.v = x.v

\* C25: decode_base64 changes nothing but the mappings whose key set is exactly
\* {"b64"}: its result has the lists (length and order), the mappings (all keys,
\* also a mapping with "b64" among other keys) and the scalars of its argument;
\* data without such a mapping is returned equal to itself, without an error.
C25_DecodeKeeps ==
  (c_fn = "decode" /\ c_pc = "done")
  => /\ c_err.type = "none" => C25_Unchanged(c_arg, c_ret)
     /\ ~HasB64Mapping(c_arg) => (c_err.type = "none" /\ c_ret = c_arg)

C25_Witness ==
  /\ c_fn = "decode" /\ c_pc = "done" /\ c_err.type = "none"
  /\ c_arg.t = "list" /\ Len(c_arg.v) = 2
  /\ c_arg.v[1].t = "dict" /\ DOMAIN c_arg.v[1].v = {"a", "b64"}
  /\ c_arg.v[1].v["a"].t = "dict"
  /\ c_ret.v[1].t = "dict" /\ DOMAIN c_ret.v[1].v = {"a", "b64"}
  /\ c_ret.v[1].v["b64"] = PyInt(1)
  /\ c_ret.v[1].v["a"].t = "bytes"
  /\ c_ret.v[2] = PyInt(1)

\* ---- C28
TimingNames == StatsKeys \ {ENGINE}
FirstRaise == CHOOSE i \in 1..Len(log) : log[i][1] = "raise" /\ \A j \in 1..(i - 1) : log[j][1] # "raise"

\* C28: after a failed DefaultModel.predict call the Stats object of the call
\* holds a timing entry for exactly the blocks of stats.time(name) that were
\* left normally, all of them before the failure; it holds none for a block the
\* exception went through (the failing phase, the engine run phase around a
\* failing step of the client) and none for a phase that was never entered.  A
\* Stats object the call shares with its caller holds the same entries.
C28_FailedPhaseUntimed ==
  (pc = "raised" /\ ~InLog("raise", "consume"))
  => /\ \E i \in 1..Len(log) : log[i][1] = "raise"
     /\ \A n \in TimingNames :
          /\ n \in DOMAIN stats <=> InLog("exit", n)
          /\ InLog("raise", n) => n \notin DOMAIN stats
          /\ ~InLog("enter", n) => n \notin DOMAIN stats
          /\ InLog("exit", n) => IndexInLog("exit", n) < FirstRaise
     /\ shared => callerStats.d = stats

C28_Witness ==
  /\ pc = "raised" /\ err.kind = FAILED_TO_RUN_GRAPH
  /\ TimingNames \cap DOMAIN stats = {PREPROCESS_TIME, COLUMNARIZE_TIME, UNALIAS_TIME}
  /\ InLog("raise", SESSION_RUN_TIME) /\ InLog("raise", ENGINE_RUN_TIME)
  /\ shared

\* C29: once SessionClient.predict has built its result, the result has exactly
\* the output aliases the Signature declares, and the value under each alias is
\* the value the engine returned for the storage name of that very alias.
C29_AliasesOwnFetch ==
  InLog("exit", ALIAS_TIME)
  => /\ DOMAIN outputs = DOMAIN sig.outputs
     /\ \A k \in DOMAIN outputs :
          \E i \in 1..Len(fetched) :
            /\ output_tensors(sig)[i] = sig.outputs[k].name
            /\ outputs[k] = fetched[i]
            /\ outputs[k] \in EngineValues(sig.outputs[k].name)

C29_Witness ==
  /\ InLog("exit", ALIAS_TIME)
  /\ DOMAIN outputs = {"p", "q"}
  /\ outputs["p"] = NdArray(<<1>>, <<Elem("p:0", 1)>>)
  /\ outputs["q"] = NdArray(<<2>>, <<Elem("q:0", 1), Elem("q:0", 2)>>)

\* ---- C26
\* C26 (as stated): a duration property read after the with block of a Timer
\* was left is the reading at the latest exit minus the reading at the latest
\* entry (in the unit of the property), whatever readings the timer function
\* returned and whatever it returns to the read itself.
C26_DurationIsSpan_AsStated ==
  (tm_pc = "exited" /\ tm_read.prop # "none")
  => tm_read.value = (tm_exit - tm_enter) * (CASE tm_read.prop = "seconds" -> 1
                                               [] tm_read.prop = "milliseconds" -> MILLI
                                               [] tm_read.prop = "microseconds" -> MICRO)

\* ---- C27
\* C27: once load_model has ended on a loaded meta graph, it has failed with a
\* FAILED_TO_LOAD_MODEL PredictionError if the meta graph has no signature at
\* all, or neither the key "serving_default_from_named" nor the requested key;
\* and if the key "serving_default_from_named" is there, load_model has
\* returned the SignatureDef under it, whether or not the requested key is
\* there too.
C27_SignatureSelection ==
  (g_pc \in {"returned", "raised"} /\ g_path = "saved_model")
  => /\ (DOMAIN g_defs = {} \/ DOMAIN g_defs \cap {"serving_default_from_named", g_name} = {})
        => /\ g_pc = "raised"
           /\ g_err.type = "PredictionError" /\ g_err.kind = FAILED_TO_LOAD_MODEL
     /\ "serving_default_from_named" \in DOMAIN g_defs
        => /\ g_pc = "returned"
           /\ g_sig = g_defs["serving_default_from_named"]

C27_Witness ==
  /\ g_pc = "returned" /\ g_path = "saved_model"
  /\ DOMAIN g_defs = {"serving_default_from_named", "serving_default", "custom"}
  /\ g_name = "custom"
  /\ g_defs["custom"].inputs["x"].dtype = "float"
  /\ g_sig.method_name = "serving_default_from_named"

\* ---- C30
\* DefaultModel.predict has returned its (inputs, outputs) pair
C30_Returned == InLog("exit", INPUT_PROCESSING_TIME)
\* an exception has left DefaultModel.predict
C30_Raised == \E i \in 1..Len(log) : log[i][1] = "raise" /\ log[i][2] # "consume"

\* C30: every call of DefaultModel.predict eventually has returned its pair or
\* has raised an error, never both, and no block of a phase is entered twice.
C30_CallEnds ==
  /\ <>(C30_Returned \/ C30_Raised)
  /\ [](~(C30_Returned /\ C30_Raised))
  /\ [](\A i, j \in 1..Len(log) : (i < j /\ log[i][1] = "enter") => log[j] # log[i])

C30_Witness ==
  /\ pc = "returned" /\ C30_Returned /\ ~C30_Raised
  /\ ~SingleInput
  /\ Len(AsList(instances)) = 2

====
